---- MODULE Spec2Model ----
(***************************************************************************)
(* Model of the index designer:                                            *)
(*   ThemeDetector and RepoConnector (src/builder/theme-detector.js),      *)
(*   NoJunkyPages (src/unnamed/part_003), ContentBuilder                   *)
(*   (src/unnamed/part_002) and AutoIndexGenerator (src/unnamed/part_001). *)
(* JavaScript strings are modelled as sequences of one-character strings;  *)
(* a string literal of the source is written as a TLA+ string and turned   *)
(* into such a sequence with Chars.  Regular expressions are records that  *)
(* carry the literal's source text, its flags and its shape, and are       *)
(* matched by ExecFrom, which follows RegExp.prototype.exec.               *)
(***************************************************************************)
EXTENDS Integers, Sequences, FiniteSets, TLC

VARIABLES
  repoData,    \* the metadata record handed to ThemeDetector.detect
  html,        \* the HTML string handed to NoJunkyPages.validate
  lastIndex,   \* lastIndex of the RegExp objects the two instances hold
  themes,      \* outcomes of the detect calls made so far, oldest first
  verdicts,    \* outcomes of the validate calls made so far, oldest first
  scan,        \* the locals of a call of extractTextContent(html) in progress
  extracted,   \* what that call has returned: <<>> before it returns
  connections, \* this.connections of the RepoConnector instance
  batch,       \* the call of connectAll: where it stands and what it holds
  direct,      \* the call of connect made from outside connectAll
  requests,    \* the URLs fetched so far, with the call that fetched each
  dominoUpdate, \* this.dominoUpdate of the RepoConnector instance
  updateData,  \* the object handed to propagateUpdate
  propagate,   \* the call of propagateUpdate: where it stands, what it holds
  selectedTheme,       \* the theme handed to ContentBuilder.buildContent
  builtContent,     \* what buildContent has returned: <<>> before it returns
  contentQuality,     \* what validateContent has returned: <<>> before it returns
  config,      \* this.config of the AutoIndexGenerator instance
  tokenIntegration, \* its this.tokenIntegration
  loader,      \* where the loadConfig call of the constructor stands
  network,     \* whether the fetch of each configuration file succeeds
  servedTemplate,    \* the template text the server answers with
  gen,         \* the call of generateIndex: where it stands, its locals
  indexData,   \* the indexData that call has built: <<>> before it has
  rendered     \* the HTML that call has returned: <<>> before it returns

evaluatorVars == <<repoData, html, lastIndex, themes, verdicts>>

scannerVars == <<scan, extracted>>

connectorVars == <<connections, batch, direct, requests>>

builderVars == <<selectedTheme, builtContent, contentQuality>>

generatorVars ==
  <<config, tokenIntegration, loader, network, servedTemplate, gen, indexData, rendered>>

propagateVars == <<dominoUpdate, updateData, propagate>>

vars ==
  <<evaluatorVars, scannerVars, connectorVars, propagateVars, builderVars, generatorVars>>

(***************************************************************************)
(* Bounds of the model.                                                    *)
(***************************************************************************)
\* calls made on the two instances
MaxCalls == 2

\* optional metadata fields filled besides the name
MaxExtra == 1

\* features of a short page that differ from the empty page
MaxVary == 1

\* anchor tags on a page
MaxLinks == 6

\* button tags on a page
MaxButtons == 4

\* calls of connect made from outside connectAll
MaxConnects == 1

\* length of the strings over ScanAlphabet handed to extractTextContent
MaxScanLen == 3

(***************************************************************************)
(* Strings.                                                                *)
(***************************************************************************)
Chars(s) == [i \in 1..Len(s) |-> SubSeq(s, i, i)]

UpperCase == "ABCDEFGHIJKLMNOPQRSTUVWXYZ"

LowerCase == "abcdefghijklmnopqrstuvwxyz"

LowerOf == [c \in {SubSeq(UpperCase, i, i) : i \in 1..26} |->
              LET i == CHOOSE k \in 1..26 : SubSeq(UpperCase, k, k) = c
              IN  SubSeq(LowerCase, i, i)]

\* String.prototype.toLowerCase
toLowerCase(cs) ==
  [i \in 1..Len(cs) |-> IF cs[i] \in DOMAIN LowerOf THEN LowerOf[cs[i]] ELSE cs[i]]

\* needle occurs in hay at (1-based) position i
StartsAt(hay, needle, i) ==
  /\ i >= 1
  /\ i + Len(needle) - 1 <= Len(hay)
  /\ \A j \in 1..Len(needle) : hay[i + j - 1] = needle[j]

\* String.prototype.includes
includes(hay, needle) ==
  \E i \in 1..(Len(hay) - Len(needle) + 1) : StartsAt(hay, needle, i)

Min(S) == CHOOSE x \in S : \A y \in S : x <= y

Max(S) == CHOOSE x \in S : \A y \in S : x >= y

\* the white space characters that occur in the modelled inputs (\s)
WhiteSpace == {" ", "\n", "\t"}

\* the line terminators that occur in the modelled inputs (not matched by .)
LineTerminator == {"\n"}


(***************************************************************************)
(* Regular expressions.  A RegExp value records the text of the literal    *)
(* (what toString returns), its flags and the shape of its pattern:        *)
(*   "alt"     lit1|lit2|...         alternatives that are literal strings *)
(*   "rep"     [c]{min,}             min or more repetitions of one char   *)
(*   "guarded" open(?!.*banned).*close                                     *)
(***************************************************************************)
\* the literal with the global flag added
RegExp_Global(body, flags) ==
  [kind |-> "alt", alts |-> <<Chars(body)>>, flags |-> flags \o "g",
   source |-> "/" \o body \o "/" \o flags \o "g"]

RegExp(body, flags) ==
  [kind |-> "alt", alts |-> <<Chars(body)>>, flags |-> flags,
   source |-> "/" \o body \o "/" \o flags]

RegExpAlt(alts, flags, source) ==
  [kind |-> "alt", alts |-> [i \in 1..Len(alts) |-> Chars(alts[i])],
   flags |-> flags, source |-> source]

RegExpRep(char, min, flags, source) ==
  [kind |-> "rep", char |-> char, min |-> min, flags |-> flags, source |-> source]

RegExpGuarded(open, banned, close, flags, source) ==
  [kind |-> "guarded", open |-> Chars(open), banned |-> Chars(banned),
   close |-> Chars(close), flags |-> flags, source |-> source]

HasFlag(re, f) == \E i \in 1..Len(re.flags) : SubSeq(re.flags, i, i) = f

\* canonicalisation under the ignoreCase flag
Canonicalize(re, cs) == IF HasFlag(re, "i") THEN <<>> \o toLowerCase(cs) ELSE cs

\* the pattern with its literal parts canonicalized
Canonical(re) ==
  CASE re.kind = "alt" ->
         [re EXCEPT !.alts = [k \in 1..Len(re.alts) |-> Canonicalize(re, re.alts[k])]]
    [] re.kind = "rep" -> re
    [] re.kind = "guarded" ->
         [re EXCEPT !.open = Canonicalize(re, re.open),
                    !.banned = Canonicalize(re, re.banned),
                    !.close = Canonicalize(re, re.close)]

\* the characters a match of the canonical pattern can start with
FirstChars(cre) ==
  CASE cre.kind = "alt" -> {cre.alts[k][1] : k \in 1..Len(cre.alts)}
    [] cre.kind = "rep" -> {cre.char}
    [] cre.kind = "guarded" -> {cre.open[1]}

\* the end (1-based, inclusive) of the line that position i lies on or starts
LineEnd(cs, i) ==
  LET T == {k \in i..Len(cs) : cs[k] \in LineTerminator}
  IN  IF T = {} THEN Len(cs) ELSE Min(T) - 1

\* `open` has matched and `rest` is what follows it on its line: the length
\* of the match, 0 when the lookahead (?!.*banned) fails or .*close finds no
\* `close` (neither goes past the end of the line; .* is greedy)
GuardedLen(cre, rest) ==
  LET C == {k \in 1..(Len(rest) - Len(cre.close) + 1) : StartsAt(rest, cre.close, k)}
  IN  IF includes(rest, cre.banned) \/ C = {} THEN 0
      ELSE Len(cre.open) + Max(C) - 1 + Len(cre.close)

\* Length of the match of the canonical pattern cre that starts at position
\* s of the canonicalized text cs, 0 when there is none (no pattern of the
\* program matches the empty string).
MatchLenAt(cre, cs, s) ==
  CASE cre.kind = "alt" ->
         \* the first alternative that matches here
         LET A == {k \in 1..Len(cre.alts) : StartsAt(cs, cre.alts[k], s)}
         IN  IF A = {} THEN 0 ELSE Len(cre.alts[Min(A)])
    [] cre.kind = "rep" ->
         \* greedy: the whole run of the character
         LET stop == Min({k \in s..(Len(cs) + 1) : k > Len(cs) \/ cs[k] # cre.char})
         IN  IF stop - s >= cre.min THEN stop - s ELSE 0
    [] cre.kind = "guarded" ->
         IF ~StartsAt(cs, cre.open, s) THEN 0
         ELSE GuardedLen(cre, SubSeq(cs, s + Len(cre.open),
                                     LineEnd(cs, s + Len(cre.open))))

\* the (1-based) positions after index `from` where a match of cre starts
MatchStarts(cre, cs, first, from) ==
  {s \in (from + 1)..Len(cs) : cs[s] \in first /\ MatchLenAt(cre, cs, s) > 0}

\* the 0-based index just past the leftmost of the matches that start at the
\* positions S, -1 when there is none
EndOfLeftmost(cre, cs, S) ==
  IF S = {} THEN -1 ELSE Min(S) - 1 + MatchLenAt(cre, cs, Min(S))

ExecCanonical(cre, cs, from) ==
  EndOfLeftmost(cre, cs, MatchStarts(cre, cs, FirstChars(cre), from))

\* RegExpBuiltinExec from index `from` (0-based): the 0-based index just past
\* the leftmost match that starts at or after `from`, -1 when there is none
\* (none starts after the end of the string).
ExecFrom(re, str, from) == ExecCanonical(Canonical(re), Canonicalize(re, str), from)

\* what test returns and the lastIndex it leaves, e being the result of the
\* exec: a global or sticky expression moves lastIndex to the end of the
\* match, or to 0 when there is none
TestOutcome(moves, e, li) ==
  [matched |-> e >= 0,
   lastIndex |-> IF ~moves THEN li ELSE IF e >= 0 THEN e ELSE 0]

\* RegExp.prototype.test on a RegExp object whose lastIndex is li: a global
\* or sticky expression starts at lastIndex, any other one starts at 0 and
\* leaves lastIndex alone.
RegExpTest(re, str, li) ==
  TestOutcome(HasFlag(re, "g") \/ HasFlag(re, "y"),
              ExecFrom(re, str, IF HasFlag(re, "g") \/ HasFlag(re, "y") THEN li ELSE 0),
              li)

\* String.prototype.match with a global expression, `|| []`, `.length`:
\* the number of successive matches (the literal is created at each call,
\* its lastIndex starts at 0).
RECURSIVE MatchCountFrom(_, _, _)
MatchCountAfter(re, str, e) == IF e < 0 THEN 0 ELSE 1 + MatchCountFrom(re, str, e)

MatchCountFrom(re, str, from) == MatchCountAfter(re, str, ExecFrom(re, str, from))

MatchCount(re, str) == MatchCountFrom(re, str, 0)

(***************************************************************************)
(* ThemeDetector.                                                          *)
(***************************************************************************)
\* An optional property of an object: <<>> is undefined, <<v>> is the value v.
Prop(obj, key) == IF key \in DOMAIN obj THEN <<obj[key]>> ELSE <<>>

\* `x || ''` on an optional string: undefined and '' are falsy
OrEmptyString(opt) == IF opt = <<>> \/ opt[1] = <<>> THEN <<>> ELSE opt[1]

\* the spread without its `|| []`
OrEmptyArray_Unguarded(opt) == opt

\* `x || []` on an optional array: undefined is falsy, every array is truthy
OrEmptyArray(opt) == IF opt = <<>> THEN << <<>> >> ELSE opt

\* Array.prototype.join(' ')
RECURSIVE join(_)
join(parts) ==
  IF Len(parts) = 0 THEN <<>>
  ELSE IF Len(parts) = 1 THEN parts[1]
  ELSE parts[1] \o <<" ">> \o join(Tail(parts))

\* this.themePatterns, in the order the keys are declared (the order in
\* which Object.keys and Object.entries enumerate them)
themePatterns ==
  << [theme |-> "mario", patterns |->
        << RegExp("mario", "i"), RegExp("luigi", "i"), RegExp("mushroom", "i"),
           RegExp("princess", "i"), RegExp("koopa", "i"), RegExp("game", "i"),
           RegExp("nintendo", "i") >>],
     [theme |-> "electronics", patterns |->
        << RegExp("circuit", "i"), RegExp("electronics", "i"), RegExp("hardware", "i"),
           RegExp("arduino", "i"), RegExp("raspberry", "i"), RegExp("pcb", "i"),
           RegExp("sensor", "i"), RegExp("iot", "i"), RegExp("embedded", "i") >>],
     [theme |-> "token-wallet", patterns |->
        << RegExp("token", "i"), RegExp("coin", "i"), RegExp("wallet", "i"),
           RegExp("crypto", "i"), RegExp("blockchain", "i"), RegExp("currency", "i"),
           RegExp("mint", "i"), RegExp("economy", "i") >>],
     [theme |-> "lab-bench", patterns |->
        << RegExp("lab", "i"), RegExp("experiment", "i"), RegExp("science", "i"),
           RegExp("research", "i"), RegExp("test", "i"), RegExp("chemistry", "i"),
           RegExp("physics", "i") >>],
     [theme |-> "coin-mint", patterns |->
        << RegExp("mint", "i"), RegExp("factory", "i"), RegExp("production", "i"),
           RegExp("manufacture", "i"), RegExp("forge", "i") >>],
     [theme |-> "art-gallery", patterns |->
        << RegExp("art", "i"), RegExp("gallery", "i"), RegExp("design", "i"),
           RegExp("creative", "i"), RegExp("visual", "i"), RegExp("banksy", "i"),
           RegExp("paint", "i"), RegExp("canvas", "i") >>],
     [theme |-> "commerce", patterns |->
        << RegExp("commerce", "i"), RegExp("shop", "i"), RegExp("store", "i"),
           RegExp("ecommerce", "i"), RegExp("product", "i"), RegExp("cart", "i"),
           RegExp("checkout", "i") >>],
     [theme |-> "dash-hub", patterns |->
        << RegExp("dashboard", "i"), RegExp("hub", "i"), RegExp("admin", "i"),
           RegExp("control", "i"), RegExp("panel", "i"), RegExp("central", "i") >>],
     [theme |-> "pricing", patterns |->
        << RegExp("price", "i"), RegExp("pricing", "i"), RegExp("cost", "i"),
           RegExp("rate", "i"), RegExp("value", "i"), RegExp("quote", "i") >> ],
     [theme |-> "terminal", patterns |->
        << RegExp("terminal", "i"), RegExp("console", "i"), RegExp("cli", "i"),
           RegExp("command", "i"), RegExp("shell", "i") >>] >>

\* getSearchText without the readme
getSearchText_NoReadme(data) ==
  LET topics == OrEmptyArray(Prop(data, "topics"))
      keywords == OrEmptyArray(Prop(data, "keywords"))
  IN  [threw |-> FALSE,
       value |-> toLowerCase(join(
          << OrEmptyString(Prop(data, "name")),
             OrEmptyString(Prop(data, "description")) >>
          \o topics[1] \o keywords[1]))]

\* getSearchText: [threw |-> a TypeError was thrown, value |-> the text]
getSearchText(data) ==
  LET topics == OrEmptyArray(Prop(data, "topics"))
      keywords == OrEmptyArray(Prop(data, "keywords"))
  IN  IF topics = <<>> \/ keywords = <<>>     \* spread of a non-iterable
        THEN [threw |-> TRUE, value |-> <<>>]
        ELSE [threw |-> FALSE,
              value |-> toLowerCase(join(
                 << OrEmptyString(Prop(data, "name")),
                    OrEmptyString(Prop(data, "description")) >>
                 \o topics[1] \o keywords[1]
                 \o << OrEmptyString(Prop(data, "readme")) >>))]

\* the outcome of the forEach of scoreTheme, tests[n] being what test has
\* returned on the n-th pattern: a match adds one to the score
tally(tests) ==
  [score |-> Cardinality({n \in DOMAIN tests : tests[n].matched}),
   lastIndex |-> [n \in DOMAIN tests |-> tests[n].lastIndex]]

\* scoreTheme(patterns, searchText), li being the lastIndex values of the
\* patterns: [score |-> what it returns, lastIndex |-> the values it leaves]
scoreTheme(patterns, searchText, li) ==
  tally(<<>> \o [n \in 1..Len(patterns) |-> RegExpTest(patterns[n], searchText, li[n])])

\* the first forEach of detect: what scoreTheme gives for every theme, in
\* the order of the table
scoreAll(searchText, li) ==
  <<>> \o [k \in 1..Len(themePatterns) |->
             scoreTheme(themePatterns[k].patterns, searchText, li[k])]

\* the second forEach with `>=` for `>`
RECURSIVE findBest_OrEqual(_, _, _, _)
findBest_OrEqual(scores, k, bestTheme, bestScore) ==
  IF k > Len(scores) THEN bestTheme
  ELSE IF scores[k] >= bestScore
         THEN findBest_OrEqual(scores, k + 1, themePatterns[k].theme, scores[k])
         ELSE findBest_OrEqual(scores, k + 1, bestTheme, bestScore)

\* the second forEach with a best score that starts at 1
RECURSIVE findBest_FromOne(_, _, _, _)
findBest_FromOne(scores, k, bestTheme, bestScore) ==
  IF k > Len(scores) THEN bestTheme
  ELSE IF scores[k] > (IF bestScore = 0 THEN 1 ELSE bestScore)
         THEN findBest_FromOne(scores, k + 1, themePatterns[k].theme, scores[k])
         ELSE findBest_FromOne(scores, k + 1, bestTheme, bestScore)

\* the second forEach of detect: the best theme among the entries from k on,
\* given the best so far
RECURSIVE findBest(_, _, _, _)
findBest(scores, k, bestTheme, bestScore) ==
  IF k > Len(scores) THEN bestTheme
  ELSE IF scores[k] > bestScore
         THEN findBest(scores, k + 1, themePatterns[k].theme, scores[k])
         ELSE findBest(scores, k + 1, bestTheme, bestScore)

\* the rest of detect once every theme is scored: the best theme, the
\* scores it logs and the lastIndex values left
bestOf(all) ==
  LET scores == [k \in 1..Len(all) |-> all[k].score]
  IN  [outcome |-> [threw |-> FALSE,
                    value |-> findBest(scores, 1, "default", 0),
                    scores |-> scores],
       lastIndex |-> [k \in 1..Len(all) |-> all[k].lastIndex]]

\* detect once getSearchText has returned `text` or has thrown
detectWith(text, li) ==
  IF text.threw
    THEN [outcome |-> [threw |-> TRUE, value |-> "TypeError", scores |-> <<>>],
          lastIndex |-> li]
    ELSE bestOf(scoreAll(text.value, li))

\* detect: the outcome of the call (what it returns and the scores it logs)
\* and the lastIndex values it leaves
detect(data, li) == detectWith(getSearchText(data), li)

(***************************************************************************)
(* NoJunkyPages.                                                           *)
(***************************************************************************)
\* the phrase patterns without their ignoreCase flag
junkyPatterns_CaseSensitive ==
  << RegExp("lorem ipsum", ""), RegExp("placeholder", ""), RegExp("todo", ""),
     RegExp("coming soon", ""), RegExp("under construction", ""),
     RegExp("test test test", ""), RegExp("asdf", ""), RegExp("xxx", ""),
     RegExp("dummy", ""), RegExp("sample text", ""),
     RegExpRep(".", 3, "", "/[.]{3,}/") >>

\* this.junkyPatterns
junkyPatterns ==
  << RegExp("lorem ipsum", "i"), RegExp("placeholder", "i"), RegExp("todo", "i"),
     RegExp("coming soon", "i"), RegExp("under construction", "i"),
     RegExp("test test test", "i"), RegExp("asdf", "i"), RegExp("xxx", "i"),
     RegExp("dummy", "i"), RegExp("sample text", "i"),
     RegExpRep(".", 3, "", "/[.]{3,}/") >>

\* this.requiredElements
requiredElements ==
  <<"navigation", "content", "header", "proper_title", "real_description">>

\* this.qualityThresholds
minContentLength == 500

minUniqueWords == 50

minInteractiveElements == 3

minLinks == 5

\* One iteration of the loop of extractTextContent, on the character at
\* (0-based) index st.i.
scanStep(str, st) ==
  LET char == str[st.i + 1]
      next == [st EXCEPT !.i = @ + 1]
  IN  IF char = "<"
        THEN [next EXCEPT !.inTag = TRUE, !.tagBuffer = <<"<">>]
      ELSE IF char = ">" /\ st.inTag
        THEN LET lowerTag == toLowerCase(st.tagBuffer \o <<">">>)
                 closed == [next EXCEPT !.inTag = FALSE, !.tagBuffer = <<>>]
             IN  IF includes(lowerTag, Chars("<script"))
                   THEN [closed EXCEPT !.inScript = TRUE]
                 ELSE IF includes(lowerTag, Chars("</script"))
                   THEN [closed EXCEPT !.inScript = FALSE]
                 ELSE IF includes(lowerTag, Chars("<style"))
                   THEN [closed EXCEPT !.inStyle = TRUE]
                 ELSE IF includes(lowerTag, Chars("</style"))
                   THEN [closed EXCEPT !.inStyle = FALSE]
                 ELSE closed
      ELSE IF st.inTag
        THEN [next EXCEPT !.tagBuffer = Append(@, char)]
      ELSE IF ~st.inScript /\ ~st.inStyle
        THEN [next EXCEPT !.result = Append(@, char)]
      ELSE next

\* The iterations of the loop from index st.i up to (not including) index n.
RECURSIVE scanLoop(_, _, _)
scanLoop(str, n, st) ==
  IF st.i >= n THEN st
  ELSE IF st.i + 1 = n THEN scanStep(str, st)
  ELSE scanLoop(str, n, scanLoop(str, (st.i + n) \div 2, st))

scanInit ==
  [i |-> 0, result |-> <<>>, inTag |-> FALSE, inScript |-> FALSE,
   inStyle |-> FALSE, tagBuffer |-> <<>>]

\* replace(/\s+/g, ' '): every maximal run of white space becomes one space
collapseWhiteSpace(cs) ==
  LET marked == [i \in 1..Len(cs) |->
                   IF cs[i] \notin WhiteSpace THEN <<cs[i]>>
                   ELSE IF i = 1 \/ cs[i - 1] \notin WhiteSpace THEN <<" ">>
                   ELSE <<>>]
      kept == SelectSeq(marked, LAMBDA m : m # <<>>)
  IN  [i \in 1..Len(kept) |-> kept[i][1]]

\* a trim that strips the leading white space only
trim_LeadingOnly(cs) ==
  LET B == {i \in 1..Len(cs) : cs[i] \notin WhiteSpace}
  IN  IF B = {} THEN <<>> ELSE SubSeq(cs, Min(B), Len(cs))

\* String.prototype.trim
trim(cs) ==
  LET B == {i \in 1..Len(cs) : cs[i] \notin WhiteSpace}
  IN  IF B = {} THEN <<>> ELSE SubSeq(cs, Min(B), Max(B))

extractTextContent(str) ==
  trim(collapseWhiteSpace(scanLoop(str, Len(str), scanInit).result))

\* new Set(text.split(/\s+/).filter(w => w.length > 2)): the pieces between
\* the runs of white space that are longer than 2
uniqueWords(text) ==
  LET starts == {i \in 1..Len(text) :
                   text[i] \notin WhiteSpace /\ (i = 1 \/ text[i - 1] \in WhiteSpace)}
      end(i) == Min({j \in i..Len(text) :
                   j = Len(text) \/ text[j + 1] \in WhiteSpace})
  IN  {w \in {SubSeq(text, i, end(i)) : i \in starts} : Len(w) > 2}

\* the forEach of checkJunkyText: what test returns on every pattern, li
\* being the lastIndex values of the patterns
junkyTests(str, li) ==
  <<>> \o [n \in 1..Len(junkyPatterns) |-> RegExpTest(junkyPatterns[n], str, li[n])]

\* the rest of checkJunkyText: `found` holds the source of every pattern
\* that has matched, in the order of the patterns
junkyTextResult(tests) ==
  LET hits == SelectSeq([n \in 1..Len(tests) |-> n], LAMBDA n : tests[n].matched)
      found == [k \in 1..Len(hits) |-> junkyPatterns[hits[k]].source]
  IN  [passed |-> Len(found) = 0,
       issues |-> found,
       message |-> IF Len(found) > 0 THEN "Found junky patterns"
                   ELSE "No junky text detected",
       lastIndex |-> [n \in 1..Len(tests) |-> tests[n].lastIndex]]

checkJunkyText(str, li) == junkyTextResult(junkyTests(str, li))

\* the regular expression literals of checkRequiredElements, in the order
\* of the keys of `checks`
requiredChecks ==
  << [element |-> "navigation", re |-> RegExpAlt(<<"<nav">>, "i", "/<nav/i")],
     [element |-> "content",
      re |-> RegExpAlt(<<"<main", "<article", "<section">>, "i",
                       "/<main|<article|<section/i")],
     [element |-> "header",
      re |-> RegExpAlt(<<"<header", "<h1">>, "i", "/<header|<h1/i")],
     [element |-> "proper_title",
      re |-> RegExpGuarded("<title>", "placeholder", "</title>", "i",
                           "/<title>(?!.*placeholder).*<\\/title>/i")],
     [element |-> "real_description",
      re |-> RegExpGuarded("<meta name=\"description\" content=\"", "placeholder",
                           "\"", "i",
                           "/<meta name=\"description\" content=\"(?!.*placeholder).*\"/i")] >>

\* the keys of `checks` whose value is false, in the order of the keys
missingElements(str) ==
  LET absent == SelectSeq([k \in 1..Len(requiredChecks) |-> k],
                          LAMBDA k : ~RegExpTest(requiredChecks[k].re, str, 0).matched)
  IN  <<>> \o [n \in 1..Len(absent) |-> requiredChecks[absent[n]].element]

requiredElementsResult(missing) ==
  [passed |-> Len(missing) = 0,
   missing |-> missing,
   message |-> IF Len(missing) > 0 THEN "Missing elements"
               ELSE "All required elements present"]

checkRequiredElements(str) == requiredElementsResult(missingElements(str))

\* the `stats` of checkQualityThresholds
qualityStats(textContent, str) ==
  [contentLength |-> Len(textContent),
   uniqueWords |-> Cardinality(uniqueWords(textContent)),
   links |-> MatchCount(RegExpAlt(<<"<a ">>, "g", "/<a /g"), str),
   interactiveElements |->
     MatchCount(RegExpAlt(<<"<button", "<input", "<select", "onclick">>, "g",
                          "/<button|<input|<select|onclick/g"), str)]

\* the four comparisons with `>` for `>=`
thresholdsResult_Strict(stats) ==
  LET checks == << [key |-> "contentLength",
                    ok |-> stats.contentLength > minContentLength],
                   [key |-> "uniqueWords", ok |-> stats.uniqueWords > minUniqueWords],
                   [key |-> "links", ok |-> stats.links > minLinks],
                   [key |-> "interactive",
                    ok |-> stats.interactiveElements > minInteractiveElements] >>
      below == SelectSeq(checks, LAMBDA c : ~c.ok)
      failed == [n \in 1..Len(below) |-> below[n].key]
  IN  [passed |-> Len(failed) = 0,
       stats |-> stats,
       failed |-> failed,
       message |-> IF Len(failed) > 0 THEN "Quality thresholds not met"
                   ELSE "All quality thresholds met"]

\* the four comparisons of checkQualityThresholds, in their order
thresholdsResult(stats) ==
  LET checks == << [key |-> "contentLength",
                    ok |-> stats.contentLength >= minContentLength],
                   [key |-> "uniqueWords", ok |-> stats.uniqueWords >= minUniqueWords],
                   [key |-> "links", ok |-> stats.links >= minLinks],
                   [key |-> "interactive",
                    ok |-> stats.interactiveElements >= minInteractiveElements] >>
      below == SelectSeq(checks, LAMBDA c : ~c.ok)
      failed == [n \in 1..Len(below) |-> below[n].key]
  IN  [passed |-> Len(failed) = 0,
       stats |-> stats,
       failed |-> failed,
       message |-> IF Len(failed) > 0 THEN "Quality thresholds not met"
                   ELSE "All quality thresholds met"]

checkQualityThresholds(str) ==
  thresholdsResult(qualityStats(extractTextContent(str), str))

genericPhrases ==
  << "welcome to our website", "this is a website", "page is under construction",
     "check back later" >>

\* checkRealContent with `||` for `&&` in `passed`
realContentResult_Either(textContent, str) ==
  LET genericFound == SelectSeq(genericPhrases,
                                LAMBDA phrase : includes(textContent, Chars(phrase)))
      hasSpecificFeatures ==
        \/ includes(str, Chars("ALC"))
        \/ includes(str, Chars("INDEX_BUILDER"))
        \/ includes(str, Chars("token"))
        \/ includes(str, Chars("theme"))
  IN  [passed |-> Len(genericFound) = 0 \/ hasSpecificFeatures,
       genericPhrases |-> genericFound,
       hasSpecificFeatures |-> hasSpecificFeatures,
       message |-> IF Len(genericFound) > 0 THEN "Generic content found"
                   ELSE "Content is specific and useful"]

\* checkRealContent, textContent being the lower-cased extracted text
realContentResult(textContent, str) ==
  LET genericFound == SelectSeq(genericPhrases,
                                LAMBDA phrase : includes(textContent, Chars(phrase)))
      hasSpecificFeatures ==
        \/ includes(str, Chars("ALC"))
        \/ includes(str, Chars("INDEX_BUILDER"))
        \/ includes(str, Chars("token"))
        \/ includes(str, Chars("theme"))
  IN  [passed |-> Len(genericFound) = 0 /\ hasSpecificFeatures,
       genericPhrases |-> genericFound,
       hasSpecificFeatures |-> hasSpecificFeatures,
       message |-> IF Len(genericFound) > 0 THEN "Generic content found"
                   ELSE "Content is specific and useful"]

checkRealContent(str) == realContentResult(toLowerCase(extractTextContent(str)), str)

\* the `elements` of checkInteractivity
interactiveElements(str) ==
  [buttons |-> MatchCount(RegExpAlt(<<"<button">>, "g", "/<button/g"), str),
   inputs |-> MatchCount(RegExpAlt(<<"<input">>, "g", "/<input/g"), str),
   clickHandlers |-> MatchCount(RegExpAlt(<<"onclick">>, "g", "/onclick/g"), str),
   forms |-> MatchCount(RegExpAlt(<<"<form">>, "g", "/<form/g"), str),
   scripts |-> MatchCount(RegExpAlt(<<"<script">>, "g", "/<script/g"), str)]

interactivityResult(elements) ==
  LET totalInteractive == elements.buttons + elements.inputs + elements.clickHandlers
                          + elements.forms + elements.scripts
  IN  [passed |-> totalInteractive >= 3,
       elements |-> elements,
       total |-> totalInteractive,
       message |-> IF totalInteractive >= 3 THEN "Page is interactive"
                   ELSE "Page lacks interactivity"]

checkInteractivity(str) == interactivityResult(interactiveElements(str))

\* the weights with one key misspelt
weights_Misspelt ==
  [noJunkyText |-> 30, hasRequiredElements |-> 25, meetsQualityThresholds |-> 20,
   hasRealContents |-> 15, isInteractive |-> 10]

\* the weights of calculateScore; a key without a weight counts 0
weights ==
  [noJunkyText |-> 30, hasRequiredElements |-> 25, meetsQualityThresholds |-> 20,
   hasRealContent |-> 15, isInteractive |-> 10]

\* the keys of `results`, in the order validate declares them
resultKeys ==
  <<"noJunkyText", "hasRequiredElements", "meetsQualityThresholds",
    "hasRealContent", "isInteractive">>

\* the forEach without its `if (value.passed)`
RECURSIVE scoreEntries_Unconditional(_, _)
scoreEntries_Unconditional(results, n) ==
  IF n > Len(resultKeys) THEN 0
  ELSE (IF resultKeys[n] \in DOMAIN weights THEN weights[resultKeys[n]] ELSE 0)
       + scoreEntries_Unconditional(results, n + 1)

\* the forEach of calculateScore over the entries of results, from entry n on
RECURSIVE scoreEntries(_, _)
scoreEntries(results, n) ==
  IF n > Len(resultKeys) THEN 0
  ELSE (IF results[resultKeys[n]].passed
          THEN (IF resultKeys[n] \in DOMAIN weights THEN weights[resultKeys[n]] ELSE 0)
          ELSE 0)
       + scoreEntries(results, n + 1)

calculateScore(results) == scoreEntries(results, 1)

\* the object validate returns, `results` being the results of the checks
verdictOf(results) ==
  LET allPassed == \A k \in DOMAIN results : results[k].passed
  IN  [threw |-> FALSE,
       passed |-> allPassed,
       isPropPage |-> allPassed,
       isJunkyPage |-> ~allPassed,
       results |-> results,
       verdict |-> IF allPassed THEN "PROPER PAGE - Quality Approved!"
                   ELSE "JUNKY PAGE - Needs Improvement!",
       score |-> calculateScore(results)]

\* validate once checkJunkyText has returned `junky`
validateWith(junky, str) ==
  [outcome |-> verdictOf(
     [noJunkyText |-> [passed |-> junky.passed, issues |-> junky.issues,
                       message |-> junky.message],
      hasRequiredElements |-> checkRequiredElements(str),
      meetsQualityThresholds |-> checkQualityThresholds(str),
      hasRealContent |-> checkRealContent(str),
      isInteractive |-> checkInteractivity(str)]),
   lastIndex |-> junky.lastIndex]

\* validate: the outcome of the call (the verdict) and the lastIndex values
\* it leaves
validate(str, li) == validateWith(checkJunkyText(str, li), str)

(***************************************************************************)
(* Inputs: metadata records.                                               *)
(***************************************************************************)
NameWords == {"", "docs", "Mario", "mint", "cart", "testing"}

ExtraWords == {"", "game", "mint"}

OptionalFields == {"description", "topics", "keywords", "readme"}

\* the words of `extras` (a sequence of <<field, word>>) placed in `field`
WordsIn(extras, field) ==
  LET mine == SelectSeq(extras, LAMBDA e : e[1] = field)
  IN  [n \in 1..Len(mine) |-> Chars(mine[n][2])]

\* A metadata record: the name, and the optional fields `extras` fills; a
\* field no word is placed in is absent from the record.
Metadata(name, extras) ==
  LET filled == {f \in OptionalFields : \E n \in 1..Len(extras) : extras[n][1] = f}
  IN  [f \in {"name"} \cup filled |->
         IF f = "name" THEN Chars(name)
         ELSE IF f \in {"topics", "keywords"} THEN WordsIn(extras, f)
         ELSE join(WordsIn(extras, f))]

ExtrasOfLength(n) == [1..n -> OptionalFields \X ExtraWords]

\* the scenarios of the specification's section 8
ScenarioMetadata ==
  { [name |-> Chars("mario-kart-game"), description |-> Chars("A fun racing game")],
    [name |-> Chars("circuit-sim"), description |-> Chars("Arduino sensor project")],
    [description |-> Chars("ecommerce production"), topics |-> <<Chars("Mushroom")>>] }

MetadataInputs ==
  ScenarioMetadata
  \cup {Metadata(name, extras) :
          name \in NameWords, extras \in UNION {ExtrasOfLength(n) : n \in 0..MaxExtra}}

(***************************************************************************)
(* Inputs: HTML pages.  A page is put together from features; a feature    *)
(* has a list of options, the first of which leaves the feature out.       *)
(***************************************************************************)
RECURSIVE Repeat(_, _)
Repeat(str, n) == IF n = 0 THEN "" ELSE str \o Repeat(str, n - 1)

Letters == "abcdefghij"

\* the k-th of the distinct words of the prose, k < 100
ProseWord(k) ==
  "entry" \o SubSeq(Letters, (k \div 10) + 1, (k \div 10) + 1)
          \o SubSeq(Letters, (k % 10) + 1, (k % 10) + 1)

RECURSIVE ProseWords(_)
ProseWords(n) == IF n = 0 THEN "" ELSE ProseWords(n - 1) \o " " \o ProseWord(n - 1)

\* n distinct words, then `fill` repetitions of one more word, then a tail
Prose(n, fill, tail) == ProseWords(n) \o Repeat(" documentation", fill) \o tail \o " "

Features ==
  << "title", "meta", "nav", "header", "main", "prose", "junk", "generic",
     "marker", "links", "buttons", "script" >>

Options ==
  [title |-> << "", "<title>Repo Index</title>", "<title>My placeholder</title>",
                "<TITLE>Repo Index</TITLE>", "<title>Repo\nIndex</title>",
                "<title lang=\"en\">Repo Index</title>" >>,
   meta |-> << "", "<meta name=\"description\" content=\"Index of repos\">",
               "<meta name=\"description\" content=\"A Placeholder\">",
               "<meta content=\"Index of repos\" name=\"description\">" >>,
   nav |-> << "", "<nav>", "<NAV class=\"top\">" >>,
   header |-> << "", "<header>", "<h1>" >>,
   main |-> << "", "<main>", "<section>", "<article>" >>,
   prose |-> << "", "<p>hi</p>",
                Prose(44, 6, " abcdefgh"), Prose(44, 6, " abcdefg"),
                Prose(43, 6, " abcdefgh entryaa"), Prose(45, 7, " abcdefgh") >>,
   junk |-> << "", "Lorem Ipsum", "lorem ipsum", "LOREM IPSUM", "lorem  ipsum",
               "<input placeholder=\"Search\">", "TODO", "Coming soon",
               "Under Construction", "test test test", "asdf", "XXX", "dummy",
               "Sample Text", "...", "....", ".." >>,
   generic |-> << "", " Welcome to our website ", " check\nback later ",
                  "<script>// this is a website</script>" >>,
   marker |-> << "", "ALC", "alc", "token", "Token", "theme", "INDEX_BUILDER" >>,
   links |-> [n \in 1..(MaxLinks + 1) |-> Repeat("<a href=\"#\">link</a> ", n - 1)],
   buttons |-> [n \in 1..(MaxButtons + 1) |-> Repeat("<button>Go</button> ", n - 1)],
   script |-> << "", "<script>var x=1;</script>", "<form onclick=\"go()\">",
                 "<a>y</a>", "<select>" >>]

\* the page with option choice[f] of every feature f, in the order of Features
RECURSIVE PageFrom(_, _)
PageFrom(choice, n) ==
  IF n > Len(Features) THEN ""
  ELSE Options[Features[n]][choice[Features[n]]] \o PageFrom(choice, n + 1)

Page(choice) == Chars(PageFrom(choice, 1))

\* no feature at all: the empty string
EmptyChoice == [f \in DOMAIN Options |-> 1]

\* a page that meets every requirement, with just 500 characters of text,
\* 50 distinct words, 6 links and 4 buttons
GoodChoice ==
  [title |-> 2, meta |-> 2, nav |-> 2, header |-> 2, main |-> 2, prose |-> 3,
   junk |-> 1, generic |-> 1, marker |-> 2, links |-> 7, buttons |-> 5,
   script |-> 1]

\* the choices that differ from `base` in at most n features
RECURSIVE Varied(_, _)
Varied(base, n) ==
  IF n = 0 THEN {base}
  ELSE LET less == Varied(base, n - 1)
       IN  less \cup {[c EXCEPT ![f] = o] :
                        c \in less,
                        f \in {Features[k] : k \in 1..Len(Features)},
                        o \in 1..(MaxLinks + MaxButtons + 20)}

ValidChoice(c) == \A f \in DOMAIN Options : c[f] \in DOMAIN Options[f]

\* the pages of the specification's section 8, and two lines of a document
ScenarioPages ==
  { Chars("<p>hi</p>"),
    Chars("<script>var x=1;</script><p>Hello world</p>"),
    Chars("<title>Home</title><p>placeholder</p>"),
    Chars("<title>Home</title>\n<p>placeholder</p>"),
    Chars("<p"), Chars("<<>>"), Chars("</title><title>") }

PageInputs ==
  ScenarioPages
  \cup {Page(c) : c \in {v \in Varied(EmptyChoice, MaxVary) : ValidChoice(v)}}
  \cup {Page(c) : c \in {v \in Varied(GoodChoice, 1) : ValidChoice(v)}}

(***************************************************************************)
(* RepoConnector.                                                          *)
(***************************************************************************)
\* Object.keys(this.connections): the repositories in the order the
\* constructor declares them
RepoOrder == <<"dash-hub", "banksy", "token-mint", "pricing-engine", "facet-commerce">>

\* this.connections after construction (the endpoints, which no method
\* reads, are left out); lastCheck is <<>> while the property is absent
connectionsInit ==
  [name \in {RepoOrder[k] : k \in 1..Len(RepoOrder)} |->
     [url |-> "/" \o name,
      type |-> CASE name = "dash-hub" -> "token_economy"
                 [] name = "banksy" -> "art_assets"
                 [] name = "token-mint" -> "receipts"
                 [] name = "pricing-engine" -> "values"
                 [] name = "facet-commerce" -> "products",
      bond |-> "hydrogen",
      status |-> "online",
      lastCheck |-> <<>>]]

\* how a fetch settles: a response with ok true, a response with ok false,
\* or a rejection
FetchOutcomes == {"ok", "not ok", "rejected"}

\* what connect does with its repository once its fetch has settled:
\* [repo |-> the connection as it leaves it, result |-> what it returns]
connectSettled(repoName, repo, outcome) ==
  IF outcome = "rejected"
    THEN [repo |-> [repo EXCEPT !.status = "error"],
          result |-> [success |-> FALSE, repo |-> repoName, error |-> "Failed to fetch"]]
    ELSE [repo |-> [repo EXCEPT !.status = IF outcome = "ok" THEN "online" ELSE "offline",
                                !.lastCheck = <<"now">>],
          result |-> [success |-> outcome = "ok", repo |-> repoName,
                      status |-> IF outcome = "ok" THEN "online" ELSE "offline",
                      bond |-> repo.bond]]

\* what connect returns for a name that this.connections does not hold
connectNotFound(repoName) ==
  [success |-> FALSE,
   error |-> "Repository " \o repoName \o " not found in connections"]

\* the summary with `offline` counted from the status of the results
connectAllSummary_ByStatus(results) ==
  [total |-> Len(RepoOrder),
   online |-> Cardinality({n \in 1..Len(results) : results[n].result.success}),
   offline |-> Cardinality({n \in 1..Len(results) :
                              /\ "status" \in DOMAIN results[n].result
                              /\ results[n].result.status = "offline"}),
   results |-> results]

\* what connectAll returns, `results` holding the entries of its results
\* object in the order they were set
connectAllSummary(results) ==
  [total |-> Len(RepoOrder),
   online |-> Cardinality({n \in 1..Len(results) : results[n].result.success}),
   offline |-> Cardinality({n \in 1..Len(results) : ~results[n].result.success}),
   results |-> results]

getStats(conns) ==
  [total |-> Cardinality(DOMAIN conns),
   online |-> Cardinality({name \in DOMAIN conns : conns[name].status = "online"}),
   offline |-> Cardinality({name \in DOMAIN conns : conns[name].status = "offline"}),
   healthPercentage |->
     (Cardinality({name \in DOMAIN conns : conns[name].status = "online"}) * 100)
       \div Cardinality(DOMAIN conns),
   bonds |-> "hydrogen",
   dominoEnabled |-> TRUE]

\* the fetch that connect starts for a repository, and the call it is for
healthRequest(repo, caller) == [url |-> repo.url \o "/health", by |-> caller]

\* the names connect is called with from outside connectAll
ConnectNames == {"dash-hub", "facet-commerce", "no-such-repo"}

\* the instance after construction, with no call made yet
ConnectorInit ==
  /\ connections = connectionsInit
  /\ batch = [pc |-> "idle", results |-> <<>>, summary |-> <<>>]
  /\ direct = [pc |-> "idle", calls |-> 0, repoName |-> "", result |-> <<>>]
  /\ requests = <<>>

\* connectAll() is called: the loop reaches the fetch of its first connect
ConnectAllCall ==
  /\ batch.pc = "idle"
  /\ batch' = [batch EXCEPT !.pc = "awaiting"]
  /\ requests' = Append(requests, healthRequest(connections[RepoOrder[1]], "connectAll"))
  /\ UNCHANGED <<propagateVars, evaluatorVars, scannerVars, builderVars, generatorVars, connections, direct>>

\* the fetch connectAll is waiting for settles: connect finishes, its result
\* is stored, and the loop either starts the next connect or returns
ConnectAllResume ==
  /\ batch.pc = "awaiting"
  /\ \E outcome \in FetchOutcomes :
       \E done \in {connectSettled(RepoOrder[Len(batch.results) + 1],
                                    connections[RepoOrder[Len(batch.results) + 1]],
                                    outcome)} :
         \E results \in {Append(batch.results,
                                 [name |-> RepoOrder[Len(batch.results) + 1],
                                  result |-> done.result])} :
           /\ connections' =
                [connections EXCEPT ![RepoOrder[Len(batch.results) + 1]] = done.repo]
           /\ IF Len(results) < Len(RepoOrder)
                THEN /\ batch' = [batch EXCEPT !.results = results]
                     /\ requests' =
                          Append(requests,
                                 healthRequest(connections[RepoOrder[Len(results) + 1]],
                                               "connectAll"))
                ELSE /\ batch' = [pc |-> "returned", results |-> results,
                                  summary |-> <<connectAllSummary(results)>>]
                     /\ requests' = requests
  /\ UNCHANGED <<propagateVars, evaluatorVars, scannerVars, builderVars, generatorVars, direct>>

\* connect(repoName) is called from outside connectAll: it returns at once
\* for a name it does not know and reaches its fetch otherwise
ConnectCall ==
  /\ direct.pc # "awaiting"
  /\ direct.calls < MaxConnects
  /\ \E repoName \in ConnectNames :
       IF repoName \notin DOMAIN connections
         THEN /\ direct' = [pc |-> "returned", calls |-> direct.calls + 1,
                            repoName |-> repoName,
                            result |-> <<connectNotFound(repoName)>>]
              /\ requests' = requests
         ELSE /\ direct' = [pc |-> "awaiting", calls |-> direct.calls + 1,
                            repoName |-> repoName, result |-> <<>>]
              /\ requests' = Append(requests,
                                    healthRequest(connections[repoName], "connect"))
  /\ UNCHANGED <<propagateVars, evaluatorVars, scannerVars, builderVars, generatorVars, connections, batch>>

\* the fetch of that call settles and connect returns
ConnectResume ==
  /\ direct.pc = "awaiting"
  /\ \E outcome \in FetchOutcomes :
       \E done \in {connectSettled(direct.repoName, connections[direct.repoName],
                                    outcome)} :
         /\ connections' = [connections EXCEPT ![direct.repoName] = done.repo]
         /\ direct' = [direct EXCEPT !.pc = "returned", !.result = <<done.result>>]
  /\ UNCHANGED <<propagateVars, evaluatorVars, scannerVars, builderVars, generatorVars, batch, requests>>


(***************************************************************************)
(* JavaScript values that reach JSON.stringify.  A value is a record       *)
(* [t |-> its type, v |-> what it holds]: the characters of a string, an   *)
(* integer, a boolean, the elements of an array, or the <<key, value>>     *)
(* pairs of an object in property order.  A character outside ASCII is     *)
(* written as its code point (U+1F344).                                    *)
(***************************************************************************)
JString(cs) == [t |-> "string", v |-> cs]

JText(s) == JString(Chars(s))

JNumber(n) == [t |-> "number", v |-> n]

JBoolean(b) == [t |-> "boolean", v |-> b]

JArray(elements) == [t |-> "array", v |-> elements]

JObject(pairs) == [t |-> "object", v |-> pairs]

\* obj[key] of an object that has the property
member(obj, key) ==
  obj.v[CHOOSE n \in 1..Len(obj.v) : obj.v[n][1] = key][2]

\* obj[key]: <<>> when the object has no such property
memberOrUndefined(obj, key) ==
  IF \E n \in 1..Len(obj.v) : obj.v[n][1] = key THEN <<member(obj, key)>> ELSE <<>>

\* ToBoolean
truthy(value) ==
  CASE value.t = "string" -> value.v # <<>>
    [] value.t = "number" -> value.v # 0
    [] value.t = "boolean" -> value.v
    [] OTHER -> TRUE

\* {...obj, key: value}: an own property keeps its place and takes the value
assign(pairs, key, value) ==
  IF \E n \in 1..Len(pairs) : pairs[n][1] = key
    THEN [n \in 1..Len(pairs) |-> IF pairs[n][1] = key THEN <<key, value>> ELSE pairs[n]]
    ELSE Append(pairs, <<key, value>>)

\* the decimal digits of a natural number
RECURSIVE decimal(_)
decimal(n) ==
  IF n < 10 THEN <<SubSeq("0123456789", n + 1, n + 1)>>
  ELSE decimal(n \div 10) \o <<SubSeq("0123456789", (n % 10) + 1, (n % 10) + 1)>>

\* QuoteJSONString: the characters of a string between its quotes
RECURSIVE quoted(_)
quoted(cs) ==
  IF cs = <<>> THEN <<>>
  ELSE (CASE cs[1] = "\"" -> <<"\\", "\"">>
          [] cs[1] = "\\" -> <<"\\", "\\">>
          [] cs[1] = "\n" -> <<"\\", "n">>
          [] cs[1] = "\t" -> <<"\\", "t">>
          [] OTHER -> <<cs[1]>>) \o quoted(Tail(cs))

\* the texts of a list with `separator` between them
RECURSIVE joinWith(_, _)
joinWith(texts, separator) ==
  IF Len(texts) = 0 THEN <<>>
  ELSE IF Len(texts) = 1 THEN texts[1]
  ELSE texts[1] \o separator \o joinWith(Tail(texts), separator)

\* JSON.stringify(value), without indentation
RECURSIVE stringify(_)
stringify(value) ==
  CASE value.t = "string" -> <<"\"">> \o quoted(value.v) \o <<"\"">>
    [] value.t = "number" -> decimal(value.v)
    [] value.t = "boolean" -> Chars(IF value.v THEN "true" ELSE "false")
    [] value.t = "array" ->
         <<"[">> \o joinWith([n \in 1..Len(value.v) |-> stringify(value.v[n])], <<",">>)
                 \o <<"]">>
    [] value.t = "object" ->
         <<"{">> \o joinWith([n \in 1..Len(value.v) |->
                                <<"\"">> \o quoted(Chars(value.v[n][1])) \o <<"\"", ":">>
                                  \o stringify(value.v[n][2])],
                             <<",">>)
                 \o <<"}">>

(***************************************************************************)
(* ContentBuilder (src/unnamed/part_002).                                  *)
(***************************************************************************)
themeEmojis ==
  << <<"mario", "U+1F344">>, <<"electronics", "U+1F50C">>,
     <<"token-wallet", "U+1FA99">>, <<"lab-bench", "U+1F9EA">>,
     <<"coin-mint", "U+1F3ED">>, <<"art-gallery", "U+1F3A8">>,
     <<"commerce", "U+1F6D2">>, <<"dash-hub", "U+1F4CA">>,
     <<"pricing", "U+1F4B0">>, <<"terminal", "U+1F4BB">>, <<"default", "U+221E">> >>

\* `themeEmojis[theme] || themeEmojis.default`
themeEmoji(theme) ==
  IF \E n \in 1..Len(themeEmojis) : themeEmojis[n][1] = theme
    THEN themeEmojis[CHOOSE n \in 1..Len(themeEmojis) : themeEmojis[n][1] = theme][2]
    ELSE "U+221E"

\* `repoData[field] || fallback` on a string property
OrText(data, field, fallback) ==
  IF OrEmptyString(Prop(data, field)) = <<>> THEN JText(fallback)
  ELSE JString(OrEmptyString(Prop(data, field)))

buildHeader(data, theme) ==
  JObject(<< <<"icon", JText(themeEmoji(theme))>>,
             <<"title", OrText(data, "name", "Repository")>>,
             <<"subtitle", OrText(data, "description", "Full-featured repository index")>>,
             <<"badge", JText("U+2705 PROPER PAGE")>> >>)

\* an entry of the cta list of buildHero
ctaEntry(text, action) ==
  JObject(<< <<"text", JText(text)>>, <<"action", JText(action)>> >>)

buildHero ==
  JObject(<< <<"tagline", JText("Automated Index Building Machine")>>,
             <<"description",
               JText("Built with INDEX_BUILDER - No junky placeholders, only proper pages!")>>,
             <<"cta", JArray(<< ctaEntry("Explore Features", "scroll_features"),
                                ctaEntry("View Token Economy", "show_tokens"),
                                ctaEntry("Connect Repos", "show_wiring") >>)>>,
             <<"animation", JText("mario_walk")>> >>)

\* an entry of the list of buildFeatures
featureEntry(icon, title, description, status) ==
  JObject(<< <<"icon", JText(icon)>>, <<"title", JText(title)>>,
             <<"description", JText(description)>>, <<"status", JText(status)>> >>)

buildFeatures ==
  JArray(<< featureEntry("U+1F39B", "Smart Index Builder",
                         "Automatically constructs proper indexes with no placeholders",
                         "active"),
            featureEntry("U+1FA99", "Token Integration",
                         "Earn Andy Lian Coins for building quality pages", "active"),
            featureEntry("U+1F517", "Website Wiring",
                         "Connected to dash-hub, banksy, token-mint, and more", "connected"),
            featureEntry("U+1F3A8", "Theme Support",
                         "All 11 themes supported with auto-detection", "active"),
            featureEntry("U+1F50D", "Instant Search",
                         "Find anything across all connected repos", "active"),
            featureEntry("U+1F697", "MRW Terminal",
                         "Mario walks, cars deliver, mushrooms generate instantly",
                         "active") >>)

\* an entry of navigation.main
mainEntry(label, url, icon) ==
  JObject(<< <<"label", JText(label)>>, <<"url", JText(url)>>, <<"icon", JText(icon)>> >>)

\* the object buildSearch and ContentBuilder.buildNavigation both give
searchBox ==
  JObject(<< <<"enabled", JBoolean(TRUE)>>,
             <<"placeholder", JText("Find anything instantly...")>>,
             <<"scope", JText("all_repos")>> >>)

buildNavigation ==
  JObject(<< <<"main", JArray(<< mainEntry("Home", "/", "U+1F3E0"),
                                 mainEntry("Token Hub", "/dash-hub", "U+1FA99"),
                                 mainEntry("Art Assets", "/banksy", "U+1F3A8"),
                                 mainEntry("Token Mint", "/token-mint", "U+1F3ED"),
                                 mainEntry("Pricing", "/pricing-engine", "U+1F4B0"),
                                 mainEntry("Commerce", "/facet-commerce", "U+1F6D2") >>)>>,
             <<"themes", JArray([n \in 1..Len(themeEmojis) |-> JText(themeEmojis[n][1])])>>,
             <<"search", searchBox>> >>)

\* an entry of sidebar.connections.repos
repoEntry(name) ==
  JObject(<< <<"name", JText(name)>>, <<"status", JText("online")>>,
             <<"bond", JText("hydrogen")>> >>)

\* an entry of sidebar.quickActions
quickAction(icon, label, action) ==
  JObject(<< <<"icon", JText(icon)>>, <<"label", JText(label)>>,
             <<"action", JText(action)>> >>)

buildSidebar ==
  JObject(<<
    <<"tokenEconomy",
      JObject(<< <<"title", JText("U+1FA99 Token Economy")>>,
                 <<"coin", JText("Andy Lian Coin (ALC)")>>,
                 <<"balance", JText("Loading...")>>,
                 <<"earnings", JObject(<< <<"build_index", JNumber(10)>>,
                                          <<"proper_page", JNumber(5)>>,
                                          <<"theme_support", JNumber(3)>>,
                                          <<"wiring_connection", JNumber(2)>> >>)>>,
                 <<"recentTransactions", JArray(<<>>)>> >>)>>,
    <<"connections",
      JObject(<< <<"title", JText("U+1F517 Connected Repos")>>,
                 <<"repos", JArray(<< repoEntry("dash-hub"), repoEntry("banksy"),
                                      repoEntry("token-mint"), repoEntry("pricing-engine"),
                                      repoEntry("facet-commerce") >>)>>,
                 <<"wiringStatus", JText("active")>>,
                 <<"updates", JText("propagate_via_domino")>> >>)>>,
    <<"quickActions",
      JArray(<< quickAction("U+26A1", "Build Index", "generate_index"),
                quickAction("U+1F344", "Instant Generate", "mushroom_boost"),
                quickAction("U+1F50D", "Search All", "open_search"),
                quickAction("U+1F3A8", "Change Theme", "theme_picker") >>)>> >>)

\* buildFooter, `now` being what new Date().toISOString() gives
buildFooter(now) ==
  JObject(<< <<"branding", JText("U+1F39B INDEX_BUILDER + U+1F9F1KrisU+1F511 = Index Authority")>>,
             <<"formulas", JArray(<< JText("U+1FAA1U+1F913U+2B50 Smart weaving of content"),
                                     JText("U+1F517 Semantic linking") >>)>>,
             <<"quality", JText("U+2705 NO junky indexes - Proper pages only!")>>,
             <<"timestamp", JText(now)>>,
             <<"version", JText("1.0.0")>> >>)

\* buildContent, `now` being what new Date().toISOString() gives
buildContent(data, theme, now) ==
  JObject(<< <<"header", buildHeader(data, theme)>>,
             <<"hero", buildHero>>,
             <<"features", buildFeatures>>,
             <<"navigation", buildNavigation>>,
             <<"sidebar", buildSidebar>>,
             <<"footer", buildFooter(now)>> >>)

\* the checks of validateContent once the content is serialised
contentChecks(content, json) ==
  [no_lorem |-> JBoolean(~includes(json, Chars("lorem"))),
   no_placeholder |-> JBoolean(~includes(json, Chars("placeholder"))),
   has_real_features |->
     IF truthy(member(content, "features"))
       THEN JBoolean(Len(member(content, "features").v) > 0)
       ELSE member(content, "features"),
   has_navigation |->
     IF truthy(member(content, "navigation"))
       THEN member(member(content, "navigation"), "main")
       ELSE member(content, "navigation"),
   has_sidebar |->
     IF truthy(member(content, "sidebar"))
       THEN member(member(content, "sidebar"), "tokenEconomy")
       ELSE member(content, "sidebar")]

\* the result validateContent builds from its checks
contentResult(checks) ==
  [passed |-> \A key \in DOMAIN checks : truthy(checks[key]),
   checks |-> checks,
   message |-> IF \A key \in DOMAIN checks : truthy(checks[key])
                 THEN "Content quality approved!"
                 ELSE "Content needs improvement"]

validateContent(content) == contentResult(contentChecks(content, stringify(content)))

(***************************************************************************)
(* AutoIndexGenerator (src/unnamed/part_001).  this.config and             *)
(* this.tokenIntegration are <<>> while null and <<the parsed object>>     *)
(* once loadConfig has assigned them.                                      *)
(***************************************************************************)
\* `holder?.[key] || fallback`
memberOr(holder, key, fallback) ==
  IF holder = <<>> THEN fallback
  ELSE IF memberOrUndefined(holder[1], key) = <<>> THEN fallback
  ELSE IF truthy(member(holder[1], key)) THEN member(holder[1], key)
  ELSE fallback

\* an entry of navigation.features
navigationFeature(name, icon, url) ==
  JObject(<< <<"name", JText(name)>>, <<"icon", JText(icon)>>, <<"url", JText(url)>> >>)

\* AutoIndexGenerator.buildNavigation
indexNavigation(cfg, token) ==
  JObject(<< <<"themes", memberOr(cfg, "themes", JArray(<<>>))>>,
             <<"repos", memberOr(token, "connections", JArray(<<>>))>>,
             <<"features",
               JArray(<< navigationFeature("Home", "U+1F3E0", "/"),
                         navigationFeature("Token Hub", "U+1FA99", "/dash-hub"),
                         navigationFeature("Art Assets", "U+1F3A8", "/banksy"),
                         navigationFeature("Commerce", "U+1F6D2", "/facet-commerce"),
                         navigationFeature("Pricing", "U+1F4B0", "/pricing-engine") >>)>> >>)

extractFeatures ==
  JArray(<< JText("Smart Navigation System"), JText("Token Economy Integration"),
            JText("Real-time Search"), JText("Theme Support"),
            JText("Repository Wiring"), JText("Interactive Elements") >>)

\* AutoIndexGenerator.buildContent
indexContent(data) ==
  JObject(<< <<"title", OrText(data, "name", "Repository")>>,
             <<"description",
               OrText(data, "description", "A proper, full-featured repository index")>>,
             <<"features", extractFeatures>>,
             <<"interactive", JBoolean(TRUE)>>,
             <<"quality", JText("premium")>> >>)

buildTokenEconomy(token) ==
  JObject(<< <<"symbol", memberOr(token, "token_symbol", JText("ALC"))>>,
             <<"name", memberOr(token, "token_name", JText("Andy Lian Coin"))>>,
             <<"balance", JNumber(0)>>,
             <<"recentTransactions", JArray(<<>>)>>,
             <<"connections", memberOr(token, "connections", JArray(<<>>))>>,
             <<"wiringStatus", JText("active")>> >>)

buildSearch == searchBox

\* getWiringStatus, `now` being what new Date().toISOString() gives
getWiringStatus(token, now) ==
  JObject(<< <<"connected", JBoolean(TRUE)>>,
             <<"repos", memberOr(token, "connections", JArray(<<>>))>>,
             <<"status", JText("online")>>,
             <<"lastUpdate", JText(now)>> >>)

\* the own properties of a metadata record, in the order name, description,
\* topics, keywords, readme
metadataPairs(data) ==
  LET keys == SelectSeq(<<"name", "description", "topics", "keywords", "readme">>,
                        LAMBDA key : key \in DOMAIN data)
  IN  [n \in 1..Len(keys) |->
         <<keys[n],
           IF keys[n] \in {"topics", "keywords"}
             THEN JArray([m \in 1..Len(data[keys[n]]) |-> JString(data[keys[n]][m])])
             ELSE JString(data[keys[n]])>>]

\* a list of pairs with one more property assigned after another
RECURSIVE assignAll(_, _)
assignAll(pairs, more) ==
  IF more = <<>> THEN pairs
  ELSE assignAll(assign(pairs, more[1][1], more[1][2]), Tail(more))

\* the indexData of generateIndex
indexDataOf(data, theme, cfg, token, now) ==
  JObject(assignAll(metadataPairs(data),
                    << <<"theme", JText(theme)>>,
                       <<"navigation", indexNavigation(cfg, token)>>,
                       <<"content", indexContent(data)>>,
                       <<"tokenEconomy", buildTokenEconomy(token)>>,
                       <<"search", buildSearch>>,
                       <<"wiring", getWiringStatus(token, now)>> >>))

\* GetSubstitution: the replacement text with its $$, $&, $` and $' expanded
\* (the pattern has no capture group, so $1..$99 stay as they are)
RECURSIVE getSubstitution(_, _, _, _)

\* the replacement text from its first `$`, at position p, on
getSubstitutionAt(replacement, matched, before, after, p) ==
  LET next == IF p < Len(replacement) THEN replacement[p + 1] ELSE ""
  IN  SubSeq(replacement, 1, p - 1)
        \o (CASE next = "$" -> <<"$">>
              [] next = "&" -> matched
              [] next = "`" -> before
              [] next = "'" -> after
              [] OTHER -> <<"$">>)
        \o getSubstitution(SubSeq(replacement,
                                  p + (IF next \in {"$", "&", "`", "'"} THEN 2 ELSE 1),
                                  Len(replacement)),
                           matched, before, after)

getSubstitution(replacement, matched, before, after) ==
  IF ~\E i \in 1..Len(replacement) : replacement[i] = "$" THEN replacement
  ELSE getSubstitutionAt(replacement, matched, before, after,
                         Min({i \in 1..Len(replacement) : replacement[i] = "$"}))

\* String.prototype.replace with the global pattern whose source is
\* `needle`, a text that a regular expression matches literally, from the
\* (1-based) position `from` of the string on
RECURSIVE replaceFrom(_, _, _, _)

\* the string from `from` on, its leftmost match being at position p
replaceAt(str, needle, replacement, from, p) ==
  SubSeq(str, from, p - 1)
    \o getSubstitution(replacement, needle, SubSeq(str, 1, p - 1),
                       SubSeq(str, p + Len(needle), Len(str)))
    \o replaceFrom(str, needle, replacement, p + Len(needle))

replaceFrom(str, needle, replacement, from) ==
  IF ~\E p \in from..(Len(str) - Len(needle) + 1) : StartsAt(str, needle, p)
    THEN SubSeq(str, from, Len(str))
    ELSE replaceAt(str, needle, replacement, from,
                   Min({p \in from..(Len(str) - Len(needle) + 1) : StartsAt(str, needle, p)}))

\* the forEach of renderTemplate from the n-th key on
RECURSIVE renderFrom(_, _, _)
renderFrom(str, pairs, n) ==
  IF n > Len(pairs) THEN str
  ELSE renderFrom(replaceFrom(str, Chars("{{" \o pairs[n][1] \o "}}"),
                              stringify(pairs[n][2]), 1),
                  pairs, n + 1)

renderTemplate(template, data) == renderFrom(template, data.v, 1)

\* the checks of validateQuality
qualityChecks(str) ==
  [no_placeholder |-> /\ ~includes(str, Chars("Lorem ipsum"))
                      /\ ~includes(str, Chars("placeholder")),
   has_navigation |-> includes(str, Chars("<nav")),
   has_content |-> Len(str) > 1000,
   has_token_display |-> includes(str, Chars("ALC")) \/ includes(str, Chars("token")),
   has_search |-> includes(str, Chars("search"))]

validateQuality(str) ==
  [passed |-> \A key \in DOMAIN qualityChecks(str) : qualityChecks(str)[key],
   checks |-> qualityChecks(str),
   message |-> IF \A key \in DOMAIN qualityChecks(str) : qualityChecks(str)[key]
                 THEN "Quality approved - proper page!"
                 ELSE "Quality check failed - needs improvement"]

(***************************************************************************)
(* RepoConnector.propagateUpdate.                                          *)
(***************************************************************************)
\* this.dominoUpdate after construction
dominoUpdateInit ==
  [enabled |-> TRUE, propagation |-> "cascade", backup |-> "multi_location"]

\* the request propagateUpdate sends to a repository, `data` being the
\* object it is called with and `now` what new Date().toISOString() gives
updateRequest(repo, data, now) ==
  [url |-> repo.url \o "/update",
   by |-> "propagateUpdate",
   body |-> stringify(JObject(assignAll(data.v,
                                        << <<"timestamp", JText(now)>>,
                                           <<"propagation", JText("domino")>> >>)))]

\* the entry propagateUpdate pushes once the fetch for a repository has
\* settled: with the response's ok and status, or with the error's message
updateResult(repoName, outcome) ==
  IF outcome = "rejected"
    THEN [repo |-> repoName, success |-> FALSE, error |-> "Failed to fetch"]
    ELSE [repo |-> repoName, success |-> outcome = "ok",
          status |-> IF outcome = "ok" THEN 200 ELSE 500]

\* what propagateUpdate returns while dominoUpdate.enabled is false
propagateDisabled == [success |-> FALSE, message |-> "Domino updates disabled"]

\* the summary with `failed` counted from the entries that hold an error
propagateSummary_ByError(results) ==
  [propagated |-> TRUE,
   method |-> "domino",
   results |-> results,
   successful |-> Cardinality({n \in 1..Len(results) : results[n].success}),
   failed |-> Cardinality({n \in 1..Len(results) : "error" \in DOMAIN results[n]})]

\* what propagateUpdate returns after its loop
propagateSummary(results) ==
  [propagated |-> TRUE,
   method |-> "domino",
   results |-> results,
   successful |-> Cardinality({n \in 1..Len(results) : results[n].success}),
   failed |-> Cardinality({n \in 1..Len(results) : ~results[n].success})]

(***************************************************************************)
(* The two instances and the calls made on them.                           *)
(***************************************************************************)
\* no call made on the ContentBuilder instance
BuilderInit ==
  /\ selectedTheme = "default"
  /\ builtContent = <<>>
  /\ contentQuality = <<>>

\* the configuration files as they are served
FetchedConfig ==
  JObject(<< <<"themes", JArray(<<JText("mario"), JText("terminal")>>)>>,
             <<"quality_rules", JObject(<< <<"no_placeholder", JBoolean(TRUE)>> >>)>> >>)

FetchedToken ==
  JObject(<< <<"token_symbol", JText("ALC")>>,
             <<"token_name", JText("Andy Lian Coin")>>,
             <<"connections", JArray(<<JText("dash-hub"), JText("banksy")>>)>> >>)

\* the AutoIndexGenerator instance when its constructor returns: loadConfig
\* has started its first fetch, and both fetches are to succeed
GeneratorInit ==
  /\ config = <<>>
  /\ tokenIntegration = <<>>
  /\ loader = "fetchConfig"
  /\ network = [config |-> "ok", token |-> "ok"]
  /\ servedTemplate = <<>>
  /\ gen = [pc |-> "idle", theme |-> ""]
  /\ indexData = <<>>
  /\ rendered = <<>>

\* no call of propagateUpdate made, on the instance as constructed
PropagateInit ==
  /\ dominoUpdate = dominoUpdateInit
  /\ updateData = JObject(<<>>)
  /\ propagate = [pc |-> "idle", results |-> <<>>, returned |-> <<>>]

\* lastIndex of the RegExp objects after construction
lastIndexInit ==
  [theme |-> [k \in 1..Len(themePatterns) |->
                [n \in 1..Len(themePatterns[k].patterns) |-> 0]],
   junky |-> [n \in 1..Len(junkyPatterns) |-> 0]]

NoMetadata == [name |-> <<>>]

Init ==
  /\ \/ repoData \in MetadataInputs /\ html = <<>>
     \/ repoData = NoMetadata /\ html \in PageInputs
  /\ lastIndex = lastIndexInit
  /\ themes = <<>>
  /\ verdicts = <<>>
  /\ scan = scanInit
  /\ extracted = <<>>
  /\ ConnectorInit
  /\ PropagateInit
  /\ BuilderInit
  /\ GeneratorInit

\* detector.detect(repoData)
Detect ==
  /\ Len(themes) + Len(verdicts) < MaxCalls
  /\ \E out \in {detect(repoData, lastIndex.theme)} :
       /\ themes' = Append(themes, out.outcome)
       /\ lastIndex' = [lastIndex EXCEPT !.theme = out.lastIndex]
  /\ UNCHANGED <<propagateVars, repoData, html, verdicts, scannerVars, connectorVars, builderVars, generatorVars>>

\* validator.validate(html)
Validate ==
  /\ Len(themes) + Len(verdicts) < MaxCalls
  /\ \E out \in {validate(html, lastIndex.junky)} :
       /\ verdicts' = Append(verdicts, out.outcome)
       /\ lastIndex' = [lastIndex EXCEPT !.junky = out.lastIndex]
  /\ UNCHANGED <<propagateVars, repoData, html, themes, scannerVars, connectorVars, builderVars, generatorVars>>

Next == Detect \/ Validate

Spec == Init /\ [][Next]_vars

(***************************************************************************)
(* A call of extractTextContent, one iteration of its loop at a time.      *)
(***************************************************************************)
\* the pages scanned: the script example of the specification's section 8,
\* and pages with tags, blocks, comparisons and white space
\* the characters of the short inputs: the two that open and close a tag,
\* two kinds of white space and a letter
ScanAlphabet == {"<", ">", " ", "\n", "a"}

ScanInputs ==
  { Chars("<script>var x=1;</script><p>Hello world</p>"),
    Chars("<p>hi</p>"),
    Chars("<STYLE>p{}</STYLE> a\n\n b <b>c</b> "),
    Chars("<script>if (a<b) go();</script>ok"),
    Chars("<script>document.write(\"<style>\")</script><p>Hello</p>"),
    Chars("<style>/* <script> */</style>text"),
    Chars("1 > 0 <br/> x"),
    Chars("<p"),
    <<>> }
  \cup UNION {[1..n -> ScanAlphabet] : n \in 1..MaxScanLen}

InitScan ==
  /\ repoData = NoMetadata
  /\ html \in ScanInputs
  /\ lastIndex = lastIndexInit
  /\ themes = <<>>
  /\ verdicts = <<>>
  /\ scan = scanInit
  /\ extracted = <<>>
  /\ ConnectorInit
  /\ PropagateInit
  /\ BuilderInit
  /\ GeneratorInit

\* one iteration of the for loop
ScanChar ==
  /\ extracted = <<>>
  /\ scan.i < Len(html)
  /\ scan' = scanStep(html, scan)
  /\ UNCHANGED <<propagateVars, evaluatorVars, extracted, connectorVars, builderVars, generatorVars>>

\* the return statement, after the loop
ScanReturn ==
  /\ extracted = <<>>
  /\ scan.i >= Len(html)
  /\ extracted' = <<trim(collapseWhiteSpace(scan.result))>>
  /\ UNCHANGED <<propagateVars, evaluatorVars, scan, connectorVars, builderVars, generatorVars>>

NextScan == ScanChar \/ ScanReturn

SpecScan == InitScan /\ [][NextScan]_vars

\* one call of connectAll with calls of connect running alongside it
InitConnector ==
  /\ repoData = NoMetadata
  /\ html = <<>>
  /\ lastIndex = lastIndexInit
  /\ themes = <<>>
  /\ verdicts = <<>>
  /\ scan = scanInit
  /\ extracted = <<>>
  /\ ConnectorInit
  /\ PropagateInit
  /\ BuilderInit
  /\ GeneratorInit

NextConnector == ConnectAllCall \/ ConnectAllResume \/ ConnectCall \/ ConnectResume

SpecConnector == InitConnector /\ [][NextConnector]_vars

\* what new Date().toISOString() gives
Timestamps == {"2026-01-01T00:00:00.000Z", "2026-01-01T00:00:01.000Z"}

\* the themes buildContent is called with: those of the table and one more
ThemeInputs == {themeEmojis[n][1] : n \in 1..Len(themeEmojis)} \cup {"retro"}

ContentInputs ==
  ScenarioMetadata \cup {Metadata(name, <<>>) : name \in NameWords}

\* builder.buildContent(repoData, theme)
BuildContent ==
  /\ builtContent = <<>>
  /\ \E now \in Timestamps : builtContent' = <<buildContent(repoData, selectedTheme, now)>>
  /\ UNCHANGED <<propagateVars, evaluatorVars, scannerVars, connectorVars, generatorVars, selectedTheme, contentQuality>>

\* builder.validateContent(content) on what buildContent has returned
ValidateContent ==
  /\ builtContent # <<>>
  /\ contentQuality = <<>>
  /\ contentQuality' = <<validateContent(builtContent[1])>>
  /\ UNCHANGED <<propagateVars, evaluatorVars, scannerVars, connectorVars, generatorVars, selectedTheme, builtContent>>

InitContent ==
  /\ repoData \in ContentInputs
  /\ html = <<>>
  /\ lastIndex = lastIndexInit
  /\ themes = <<>>
  /\ verdicts = <<>>
  /\ scan = scanInit
  /\ extracted = <<>>
  /\ ConnectorInit
  /\ PropagateInit
  /\ selectedTheme \in ThemeInputs
  /\ builtContent = <<>>
  /\ contentQuality = <<>>
  /\ GeneratorInit

NextContent == BuildContent \/ ValidateContent

\* buildContent and validateContent on one ContentBuilder
SpecContent == InitContent /\ [][NextContent]_vars

\* the fetch of builder-config.json settles
LoadConfigFetched ==
  /\ loader = "fetchConfig"
  /\ loader' = IF network.config = "ok" THEN "parseConfig" ELSE "failed"
  /\ UNCHANGED <<propagateVars, evaluatorVars, scannerVars, connectorVars, builderVars,
                 config, tokenIntegration, network, servedTemplate, gen, indexData, rendered>>

\* configRes.json() settles: this.config is assigned and the second fetch
\* starts
LoadConfigParsed ==
  /\ loader = "parseConfig"
  /\ config' = <<FetchedConfig>>
  /\ loader' = "fetchToken"
  /\ UNCHANGED <<propagateVars, evaluatorVars, scannerVars, connectorVars, builderVars,
                 tokenIntegration, network, servedTemplate, gen, indexData, rendered>>

\* the fetch of andy-lian-integration.json settles
LoadTokenFetched ==
  /\ loader = "fetchToken"
  /\ loader' = IF network.token = "ok" THEN "parseToken" ELSE "failed"
  /\ UNCHANGED <<propagateVars, evaluatorVars, scannerVars, connectorVars, builderVars,
                 config, tokenIntegration, network, servedTemplate, gen, indexData, rendered>>

\* tokenRes.json() settles: this.tokenIntegration is assigned
LoadTokenParsed ==
  /\ loader = "parseToken"
  /\ tokenIntegration' = <<FetchedToken>>
  /\ loader' = "loaded"
  /\ UNCHANGED <<propagateVars, evaluatorVars, scannerVars, connectorVars, builderVars,
                 config, network, servedTemplate, gen, indexData, rendered>>

\* generateIndex(repoData) is called: detectTheme waits for its import
GenerateIndexCall ==
  /\ gen.pc = "idle"
  /\ gen' = [gen EXCEPT !.pc = "detectTheme"]
  /\ UNCHANGED <<propagateVars, evaluatorVars, scannerVars, connectorVars, builderVars,
                 config, tokenIntegration, loader, network, servedTemplate, indexData, rendered>>

\* the import settles: a new ThemeDetector detects the theme and loadTemplate
\* starts the fetch of that theme's template
GenerateIndexDetected ==
  /\ gen.pc = "detectTheme"
  /\ \E out \in {detect(repoData, lastIndexInit.theme).outcome} :
       gen' = IF out.threw THEN [gen EXCEPT !.pc = "rejected"]
              ELSE [pc |-> "loadTemplate", theme |-> out.value]
  /\ UNCHANGED <<propagateVars, evaluatorVars, scannerVars, connectorVars, builderVars,
                 config, tokenIntegration, loader, network, servedTemplate, indexData, rendered>>

\* that fetch settles: on a response with ok true loadTemplate reads its
\* text, otherwise it fetches the base template
GenerateIndexTemplate ==
  /\ gen.pc = "loadTemplate"
  /\ \E outcome \in FetchOutcomes :
       gen' = [gen EXCEPT !.pc = IF outcome = "ok" THEN "text" ELSE "fallback"]
  /\ UNCHANGED <<propagateVars, evaluatorVars, scannerVars, connectorVars, builderVars,
                 config, tokenIntegration, loader, network, servedTemplate, indexData, rendered>>

\* the fetch of the base template settles: loadTemplate reads the text of
\* any response, and a rejection rejects generateIndex
GenerateIndexFallback ==
  /\ gen.pc = "fallback"
  /\ \E outcome \in FetchOutcomes :
       gen' = [gen EXCEPT !.pc = IF outcome = "rejected" THEN "rejected" ELSE "text"]
  /\ UNCHANGED <<propagateVars, evaluatorVars, scannerVars, connectorVars, builderVars,
                 config, tokenIntegration, loader, network, servedTemplate, indexData, rendered>>

\* res.text() settles: generateIndex builds indexData from this.config and
\* this.tokenIntegration as they are now, renders the template and returns
GenerateIndexRender ==
  /\ gen.pc = "text"
  /\ \E now \in Timestamps :
       \E data \in {indexDataOf(repoData, gen.theme, config, tokenIntegration, now)} :
         /\ indexData' = <<data>>
         /\ rendered' = <<renderTemplate(servedTemplate, data)>>
  /\ gen' = [gen EXCEPT !.pc = "returned"]
  /\ UNCHANGED <<propagateVars, evaluatorVars, scannerVars, connectorVars, builderVars,
                 config, tokenIntegration, loader, network, servedTemplate>>

\* templates whose only dynamic parts are {{key}} substitutions
Templates ==
  { Chars("<nav>{{navigation}}</nav><h1>{{name}}</h1><p>{{description}}</p>"),
    Chars("<header>{{theme}}</header><main>{{content}}</main>"),
    Chars("<form><input name=\"q\" data-search='{{search}}'></form>"),
    Chars("<aside>{{tokenEconomy}}</aside><footer>{{wiring}}</footer>") }

GeneratorInputs ==
  ScenarioMetadata \cup {[name |-> Chars("docs")]}

InitGenerator ==
  /\ repoData \in GeneratorInputs
  /\ html = <<>>
  /\ lastIndex = lastIndexInit
  /\ themes = <<>>
  /\ verdicts = <<>>
  /\ scan = scanInit
  /\ extracted = <<>>
  /\ ConnectorInit
  /\ PropagateInit
  /\ BuilderInit
  /\ config = <<>>
  /\ tokenIntegration = <<>>
  /\ loader = "fetchConfig"
  /\ network \in [config : {"ok", "fails"}, token : {"ok", "fails"}]
  /\ servedTemplate \in Templates
  /\ gen = [pc |-> "idle", theme |-> ""]
  /\ indexData = <<>>
  /\ rendered = <<>>

NextGenerator ==
  \/ LoadConfigFetched
  \/ LoadConfigParsed
  \/ LoadTokenFetched
  \/ LoadTokenParsed
  \/ GenerateIndexCall
  \/ GenerateIndexDetected
  \/ GenerateIndexTemplate
  \/ GenerateIndexFallback
  \/ GenerateIndexRender

\* the constructor's loadConfig and one call of generateIndex
SpecGenerator == InitGenerator /\ [][NextGenerator]_vars

\* the objects propagateUpdate is called with
UpdateInputs ==
  { JObject(<<>>),
    JObject(<< <<"type", JText("theme_change")>>, <<"timestamp", JText("then")>> >>) }

\* this.connections as the constructor leaves it and as calls of connect
\* leave it
ConnectionInputs ==
  { connectionsInit,
    [connectionsInit EXCEPT
       !["dash-hub"] = connectSettled("dash-hub", @, "rejected").repo],
    [connectionsInit EXCEPT
       !["banksy"] = connectSettled("banksy", @, "not ok").repo,
       !["facet-commerce"] = connectSettled("facet-commerce", @, "rejected").repo] }

\* propagateUpdate(updateData) is called: it returns at once while
\* dominoUpdate.enabled is false and reaches its first fetch otherwise
PropagateCall ==
  /\ propagate.pc = "idle"
  /\ IF ~dominoUpdate.enabled
       THEN /\ propagate' = [propagate EXCEPT !.pc = "returned",
                                              !.returned = <<propagateDisabled>>]
            /\ requests' = requests
       ELSE /\ propagate' = [propagate EXCEPT !.pc = "awaiting"]
            /\ \E now \in Timestamps :
                 requests' = Append(requests,
                                    updateRequest(connections[RepoOrder[1]], updateData, now))
  /\ UNCHANGED <<evaluatorVars, scannerVars, builderVars, generatorVars,
                 connections, batch, direct, dominoUpdate, updateData>>

\* the fetch propagateUpdate is waiting for settles: its entry is pushed and
\* the loop either sends the next request or returns
PropagateResume ==
  /\ propagate.pc = "awaiting"
  /\ \E outcome \in FetchOutcomes :
       \E results \in {Append(propagate.results,
                              updateResult(RepoOrder[Len(propagate.results) + 1],
                                           outcome))} :
         IF Len(results) < Len(RepoOrder)
           THEN /\ propagate' = [propagate EXCEPT !.results = results]
                /\ \E now \in Timestamps :
                     requests' =
                       Append(requests,
                              updateRequest(connections[RepoOrder[Len(results) + 1]],
                                            updateData, now))
           ELSE /\ propagate' = [pc |-> "returned", results |-> results,
                                 returned |-> <<propagateSummary(results)>>]
                /\ requests' = requests
  /\ UNCHANGED <<evaluatorVars, scannerVars, builderVars, generatorVars,
                 connections, batch, direct, dominoUpdate, updateData>>

InitPropagate ==
  /\ repoData = NoMetadata
  /\ html = <<>>
  /\ lastIndex = lastIndexInit
  /\ themes = <<>>
  /\ verdicts = <<>>
  /\ scan = scanInit
  /\ extracted = <<>>
  /\ connections \in ConnectionInputs
  /\ batch = [pc |-> "idle", results |-> <<>>, summary |-> <<>>]
  /\ direct = [pc |-> "idle", calls |-> 0, repoName |-> "", result |-> <<>>]
  /\ requests = <<>>
  /\ dominoUpdate \in {[dominoUpdateInit EXCEPT !.enabled = b] : b \in BOOLEAN}
  /\ updateData \in UpdateInputs
  /\ propagate = [pc |-> "idle", results |-> <<>>, returned |-> <<>>]
  /\ BuilderInit
  /\ GeneratorInit

NextPropagate == PropagateCall \/ PropagateResume

\* one call of propagateUpdate
SpecPropagate == InitPropagate /\ [][NextPropagate]_vars

(***************************************************************************)
(* The claims.  What a claim speaks of is stated with substring searches   *)
(* on the input rather than with the operators that compute the outcome.   *)
(***************************************************************************)
\* the strings a metadata record holds
Pieces(data) ==
  {data[f] : f \in DOMAIN data \cap {"name", "description", "readme"}}
  \cup UNION {{data[f][n] : n \in 1..Len(data[f])} :
                f \in DOMAIN data \cap {"topics", "keywords"}}

\* a pattern of the theme table (a lower-case word) occurs in the metadata,
\* in any letter case
Occurs(re, data) ==
  \E piece \in Pieces(data) : includes(toLowerCase(piece), re.alts[1])

\* the patterns of the k-th theme that occur in the metadata
OccurringOf(k, data) ==
  {n \in 1..Len(themePatterns[k].patterns) : Occurs(themePatterns[k].patterns[n], data)}

\* every <<theme, pattern>> of the table whose pattern occurs in the metadata
AllOccurring(data) ==
  UNION {{<<k, n>> : n \in OccurringOf(k, data)} : k \in 1..Len(themePatterns)}

\* the largest number of occurring patterns of one theme
TopCount(data) ==
  Max({Cardinality(OccurringOf(k, data)) : k \in 1..Len(themePatterns)})

\* the themes that reach it
TopThemes(data) ==
  {k \in 1..Len(themePatterns) : Cardinality(OccurringOf(k, data)) = TopCount(data)}

\* the order in which the claim lists the themes
ClaimedOrder ==
  << "mario", "electronics", "token-wallet", "lab-bench", "coin-mint",
     "art-gallery", "commerce", "dash-hub", "pricing", "terminal" >>

\* C1: detect returns the theme with the highest score and, among several
\* themes sharing the highest non-zero score, the one declared first in the
\* table, at every call on the same input.
C1_HighestScoreFirstDeclared ==
  \A n \in 1..Len(themes) :
    /\ ~themes[n].threw
    /\ TopCount(repoData) > 0 =>
         themes[n].value = ClaimedOrder[Min(TopThemes(repoData))]
    /\ themes[n] = themes[1]

\* C1 witness: detect has returned on metadata where several themes share
\* the highest non-zero score
C1_Witness ==
  /\ Len(themes) >= 1
  /\ TopCount(repoData) > 0
  /\ Cardinality(TopThemes(repoData)) >= 2
  /\ themes[1].value = ClaimedOrder[Min(TopThemes(repoData))]

\* C2: on metadata in which no pattern of any theme occurs, absent optional
\* fields included, detect returns 'default' and does not throw.
C2_DefaultWhenNoMatch ==
  \A n \in 1..Len(themes) :
    /\ ~themes[n].threw
    /\ TopCount(repoData) = 0 => themes[n].value = "default"

\* C2 witness: detect has returned 'default' on a record that has only a
\* name, in which no pattern occurs
C2_Witness ==
  /\ Len(themes) >= 1
  /\ DOMAIN repoData = {"name"}
  /\ repoData.name # <<>>
  /\ TopCount(repoData) = 0
  /\ themes[1].value = "default"

\* C3: on metadata in which exactly one pattern occurs, a pattern that only
\* one theme holds, detect returns that theme.
C3_SinglePatternTheme ==
  \A n \in 1..Len(themes) :
    \A kn \in AllOccurring(repoData) :
      AllOccurring(repoData) = {kn} => themes[n].value = ClaimedOrder[kn[1]]

\* C3 witness: detect has returned the theme of the only pattern that occurs
C3_Witness ==
  /\ Len(themes) >= 1
  /\ Cardinality(AllOccurring(repoData)) = 1
  /\ \E kn \in AllOccurring(repoData) : themes[1].value = ClaimedOrder[kn[1]]

\* the elements of a list
Range(seq) == {seq[i] : i \in 1..Len(seq)}

\* C4: two calls of detect, or two calls of validate, on the same instance
\* with the same input return the same output, and no call changes the state
\* of a regular expression that a later call or a later check reads.
C4_RepeatedCallsAgree ==
  /\ lastIndex = lastIndexInit
  /\ \A n \in 1..Len(themes) : themes[n] = themes[1]
  /\ \A n \in 1..Len(verdicts) : verdicts[n] = verdicts[1]

\* C4 witness: validate has been called twice on a page in which a banned
\* pattern matches
C4_Witness ==
  /\ Len(verdicts) >= 2
  /\ html # <<>>
  /\ ~verdicts[1].results.noJunkyText.passed
  /\ verdicts[2] = verdicts[1]

\* the sum of the weights the claim gives, over the checks that passed
PassedWeight(results) ==
  (IF results.noJunkyText.passed THEN 30 ELSE 0)
  + (IF results.hasRequiredElements.passed THEN 25 ELSE 0)
  + (IF results.meetsQualityThresholds.passed THEN 20 ELSE 0)
  + (IF results.hasRealContent.passed THEN 15 ELSE 0)
  + (IF results.isInteractive.passed THEN 10 ELSE 0)

AllFivePassed(results) ==
  /\ results.noJunkyText.passed
  /\ results.hasRequiredElements.passed
  /\ results.meetsQualityThresholds.passed
  /\ results.hasRealContent.passed
  /\ results.isInteractive.passed

\* C5: the score of a verdict is the sum of the weights 30, 25, 20, 15, 10 of
\* the checks that passed, it lies between 0 and 100, and passed holds iff
\* all five checks passed iff the score is 100.
C5_ScoreIsPassedWeight ==
  \A n \in 1..Len(verdicts) :
    /\ verdicts[n].score = PassedWeight(verdicts[n].results)
    /\ verdicts[n].score \in 0..100
    /\ verdicts[n].passed <=> AllFivePassed(verdicts[n].results)
    /\ verdicts[n].passed <=> verdicts[n].score = 100

\* C5 witness: validate has returned a verdict of a page that passes some
\* checks and fails others
C5_Witness ==
  /\ Len(verdicts) >= 1
  /\ verdicts[1].score = 70
  /\ verdicts[1].results.hasRealContent.passed
  /\ ~verdicts[1].results.noJunkyText.passed
  /\ ~verdicts[1].passed

\* inputs that are empty or are not well-formed HTML
MalformedOrEmpty == {<<>>, Chars("<p"), Chars("<<>>"), Chars("</title><title>")}

\* the four checks other than the banned-phrase check all fail
OtherChecksFail(results) ==
  /\ ~results.hasRequiredElements.passed
  /\ ~results.meetsQualityThresholds.passed
  /\ ~results.hasRealContent.passed
  /\ ~results.isInteractive.passed

\* C6 as stated: validate does not throw, and on an empty or malformed input
\* its verdict has passed = false and score = 0.
C6_EmptyScoresZero ==
  \A n \in 1..Len(verdicts) :
    /\ ~verdicts[n].threw
    /\ html \in MalformedOrEmpty => ~verdicts[n].passed /\ verdicts[n].score = 0

\* C6, amended: validate does not throw; on the empty string its verdict has
\* passed = false and score = 30; on any input that fails the four checks
\* other than the banned-phrase check, passed = false and the score is 30
\* when no banned pattern matches and 0 when one does.
C6_EmptyScoresThirty ==
  \A n \in 1..Len(verdicts) :
    /\ ~verdicts[n].threw
    /\ html = <<>> => ~verdicts[n].passed /\ verdicts[n].score = 30
    /\ OtherChecksFail(verdicts[n].results) =>
         /\ ~verdicts[n].passed
         /\ verdicts[n].score = IF verdicts[n].results.noJunkyText.passed THEN 30 ELSE 0

\* C6 witness: validate has returned on the empty string
C6_Witness ==
  /\ Len(verdicts) >= 1
  /\ html = <<>>
  /\ OtherChecksFail(verdicts[1].results)
  /\ verdicts[1].score = 30

\* the banned phrases, as the claim's source lists them
BannedPhrases ==
  { "lorem ipsum", "placeholder", "todo", "coming soon", "under construction",
    "test test test", "asdf", "xxx", "dummy", "sample text" }

\* the patterns that match the page: a phrase in any letter case, or three
\* consecutive dots
MatchingPatterns(page) ==
  {"/" \o p \o "/i" : p \in {q \in BannedPhrases : includes(toLowerCase(page), Chars(q))}}
  \cup (IF includes(page, Chars("...")) THEN {"/[.]{3,}/"} ELSE {})

\* C7: the banned-phrase check passes iff no banned pattern matches the raw
\* HTML, its issues are exactly the matching patterns, and a page that holds
\* 'lorem ipsum' in any letter case does not pass it.
C7_BannedPhraseCheck ==
  \A n \in 1..Len(verdicts) :
    /\ verdicts[n].results.noJunkyText.passed <=> MatchingPatterns(html) = {}
    /\ Range(verdicts[n].results.noJunkyText.issues) = MatchingPatterns(html)
    /\ includes(toLowerCase(html), Chars("lorem ipsum")) =>
         ~verdicts[n].results.noJunkyText.passed

\* C7 witness: validate has returned on a page that holds LOREM IPSUM in
\* upper case and is otherwise a proper page
C7_Witness ==
  /\ Len(verdicts) >= 1
  /\ includes(html, Chars("LOREM IPSUM"))
  /\ verdicts[1].results.noJunkyText.issues = <<"/lorem ipsum/i">>
  /\ verdicts[1].score = 70

\* the positions of the lower-cased page l at or after position i where
\* `close` starts
ClosesAfter(l, close, i) == {j \in i..Len(l) : StartsAt(l, close, j)}

\* the texts that the lower-cased page l holds between an `open` and the
\* first `close` after it
TextsBetween(l, open, close) ==
  {SubSeq(l, i + Len(open), Min(ClosesAfter(l, close, i + Len(open))) - 1) :
     i \in {k \in 1..Len(l) : /\ StartsAt(l, open, k)
                              /\ ClosesAfter(l, close, k + Len(open)) # {}}}

\* the requirement named e is met by the lower-cased page l: the title's own
\* text, or the description's own content, is free of 'placeholder'
RequirementMet(e, l) ==
  CASE e = "navigation" -> includes(l, Chars("<nav"))
    [] e = "content" -> \/ includes(l, Chars("<main"))
                        \/ includes(l, Chars("<article"))
                        \/ includes(l, Chars("<section"))
    [] e = "header" -> includes(l, Chars("<header")) \/ includes(l, Chars("<h1"))
    [] e = "proper_title" ->
         \E text \in TextsBetween(l, Chars("<title>"), Chars("</title>")) :
           ~includes(text, Chars("placeholder"))
    [] e = "real_description" ->
         \E described \in TextsBetween(l, Chars("<meta name=\"description\" content=\""),
                                       Chars("\"")) :
           ~includes(described, Chars("placeholder"))

\* C8: the missing list of the required-structure check names a requirement
\* exactly when the page does not meet it, whatever the rest of the page
\* holds, and the fragment <p>hi</p> misses all five and does not pass.
C8_RequirementsIndependent ==
  \A n \in 1..Len(verdicts) :
    /\ \A e \in Range(requiredElements) :
         e \in Range(verdicts[n].results.hasRequiredElements.missing)
           <=> ~RequirementMet(e, toLowerCase(html))
    /\ html = Chars("<p>hi</p>") =>
         /\ Range(verdicts[n].results.hasRequiredElements.missing)
              = Range(requiredElements)
         /\ ~verdicts[n].passed

\* the number of places of the page where one of the words starts
Occurrences(page, words) ==
  Cardinality({i \in 1..Len(page) : \E w \in words : StartsAt(page, Chars(w), i)})

\* the four metrics of a page whose extracted text is `text`
Metrics(text, page) ==
  [contentLength |-> Len(text),
   uniqueWords |-> Cardinality(uniqueWords(text)),
   links |-> Occurrences(page, {"<a "}),
   interactiveElements |-> Occurrences(page, {"<button", "<input", "<select", "onclick"})]

\* the metrics that are below their minimum
BelowMinimum(stats) ==
  {m \in {"contentLength", "uniqueWords", "links", "interactive"} :
     \/ m = "contentLength" /\ stats.contentLength < 500
     \/ m = "uniqueWords" /\ stats.uniqueWords < 50
     \/ m = "links" /\ stats.links < 5
     \/ m = "interactive" /\ stats.interactiveElements < 3}

\* C9: the quality-threshold check reports the four metrics of the page,
\* passes iff the text has 500 characters or more, 50 distinct words longer
\* than 2 or more, and the page 5 anchor tags or more and 3 interactive
\* elements or more, and its failed list names exactly the metrics below
\* their minimum.
C9_QualityThresholds ==
  \A n \in 1..Len(verdicts) :
    /\ verdicts[n].results.meetsQualityThresholds.stats
         = Metrics(extractTextContent(html), html)
    /\ verdicts[n].results.meetsQualityThresholds.passed
         <=> BelowMinimum(verdicts[n].results.meetsQualityThresholds.stats) = {}
    /\ Range(verdicts[n].results.meetsQualityThresholds.failed)
         = BelowMinimum(verdicts[n].results.meetsQualityThresholds.stats)

\* C9 witness: validate has returned on a page whose text has just 500
\* characters and 50 distinct words, and the check has passed
C9_Witness ==
  /\ Len(verdicts) >= 1
  /\ verdicts[1].results.meetsQualityThresholds.stats.contentLength = 500
  /\ verdicts[1].results.meetsQualityThresholds.stats.uniqueWords = 50
  /\ verdicts[1].results.meetsQualityThresholds.passed

\* the generic filler phrases and the domain markers
FillerPhrases ==
  { "welcome to our website", "this is a website", "page is under construction",
    "check back later" }

DomainMarkers == {"ALC", "INDEX_BUILDER", "token", "theme"}

HoldsOneOf(text, words) == \E w \in words : includes(text, Chars(w))

\* C10: the real-content check passes iff the lower-cased extracted text
\* holds no filler phrase and the raw HTML holds a domain marker.
C10_RealContentCheck ==
  \A n \in 1..Len(verdicts) :
    verdicts[n].results.hasRealContent.passed
      <=> /\ ~HoldsOneOf(toLowerCase(extractTextContent(html)), FillerPhrases)
          /\ HoldsOneOf(html, DomainMarkers)

\* C10 witness: validate has returned on a page that holds a domain marker
\* and a filler phrase, and the check has not passed
C10_Witness ==
  /\ Len(verdicts) >= 1
  /\ HoldsOneOf(html, DomainMarkers)
  /\ HoldsOneOf(toLowerCase(extractTextContent(html)), FillerPhrases)
  /\ ~verdicts[1].results.hasRealContent.passed

\* the position of the '>' that ends the tag which starts at position p of
\* page l, one past the end of the page when nothing ends it
TagEnd(l, p) == Min({k \in p..Len(l) : l[k] = ">"} \cup {Len(l) + 1})

\* what follows the tag that starts at position p of the lower-cased page l:
\* the content of a script block, of a style block, or text
AfterTag(l, p) ==
  IF StartsAt(l, Chars("<script"), p) THEN "script"
  ELSE IF StartsAt(l, Chars("<style"), p) THEN "style"
  ELSE "text"

\* The positions from p on of the lower-cased page l that lie outside every
\* tag and outside every script and style block, position p being in text or
\* in the content of a block as `mode` says.  A tag runs from its '<' to the
\* next '>'; a block runs from its opening tag to the closing tag of its
\* kind, whatever lies between.
RECURSIVE Outside(_, _, _)
Outside(l, p, mode) ==
  IF p > Len(l) THEN {}
  ELSE IF mode = "text"
    THEN IF l[p] = "<" THEN Outside(l, TagEnd(l, p) + 1, AfterTag(l, p))
         ELSE {p} \cup Outside(l, p + 1, "text")
  ELSE IF StartsAt(l, Chars("</" \o mode), p) THEN Outside(l, TagEnd(l, p) + 1, "text")
  ELSE Outside(l, p + 1, mode)

\* the positions of S in increasing order
RECURSIVE Ascending(_)
Ascending(S) == IF S = {} THEN <<>> ELSE <<Min(S)>> \o Ascending(S \ {Min(S)})

\* the characters of the page at the positions S
CharsAt(page, positions) == [n \in 1..Len(positions) |-> page[positions[n]]]

\* the text of the page outside every tag and every script and style block
OutsideText(page) == CharsAt(page, Ascending(Outside(toLowerCase(page), 1, "text")))

\* C11: extractTextContent returns the characters of the page that lie
\* outside every tag and every script and style block, white space collapsed
\* and trimmed ('Hello world' for the script example), and no iteration of
\* its loop appends a character while one of the three flags is set.
C11_ExtractsTextOutsideMarkup ==
  /\ [](extracted # <<>> =>
          /\ extracted[1] = trim(collapseWhiteSpace(OutsideText(html)))
          /\ html = Chars("<script>var x=1;</script><p>Hello world</p>") =>
               extracted[1] = Chars("Hello world"))
  /\ [][Len(scan'.result) > Len(scan.result) =>
          ~scan.inTag /\ ~scan.inScript /\ ~scan.inStyle]_vars

\* where the lower-cased page l ends, read from position p on in `mode`:
\* in text, or in the content of a script or style block left open
RECURSIVE FinalMode(_, _, _)
FinalMode(l, p, mode) ==
  IF p > Len(l) THEN mode
  ELSE IF mode = "text"
    THEN IF l[p] = "<" THEN FinalMode(l, TagEnd(l, p) + 1, AfterTag(l, p))
         ELSE FinalMode(l, p + 1, "text")
  ELSE IF StartsAt(l, Chars("</" \o mode), p) THEN FinalMode(l, TagEnd(l, p) + 1, "text")
  ELSE FinalMode(l, p + 1, mode)

\* C17: the in-script and in-style flags become set only at the '>' that
\* ends an opening script or style tag, and once the scan has gone through a
\* page whose script and style blocks are all closed by their closing tags,
\* both flags are false, whatever the blocks hold.
C17_FlagsFollowBlocks ==
  /\ [][/\ scan'.inScript /\ ~scan.inScript =>
             /\ html[scan.i + 1] = ">"
             /\ StartsAt(toLowerCase(scan.tagBuffer), Chars("<script"), 1)
        /\ scan'.inStyle /\ ~scan.inStyle =>
             /\ html[scan.i + 1] = ">"
             /\ StartsAt(toLowerCase(scan.tagBuffer), Chars("<style"), 1)]_vars
  /\ [](/\ scan.i = Len(html)
        /\ FinalMode(toLowerCase(html), 1, "text") = "text"
        => ~scan.inScript /\ ~scan.inStyle)

\* the page has what the scenario lists: 500 characters of prose or more with
\* 50 distinct words or more, a nav, a header, a main, a title and a
\* description free of 'placeholder', 6 anchor tags, 4 button tags, 'ALC',
\* and no banned phrase
HasEverythingListed(page) ==
  /\ BelowMinimum(Metrics(extractTextContent(page), page))
       \cap {"contentLength", "uniqueWords"} = {}
  /\ \A e \in {"navigation", "header", "proper_title", "real_description"} :
       RequirementMet(e, toLowerCase(page))
  /\ includes(toLowerCase(page), Chars("<main"))
  /\ Occurrences(page, {"<a "}) = 6
  /\ Occurrences(page, {"<button"}) = 4
  /\ includes(page, Chars("ALC"))
  /\ MatchingPatterns(page) = {}

\* C12: validate returns passed = true and score = 100 on every page that
\* has everything the scenario lists.
C12_ProperPageApproved ==
  \A n \in 1..Len(verdicts) :
    HasEverythingListed(html) => verdicts[n].passed /\ verdicts[n].score = 100


\* the requests connectAll has made so far, in the order it made them
ProbesOf(caller) ==
  LET RECURSIVE Pick(_)
      Pick(n) == IF n = 0 THEN <<>>
                 ELSE IF requests[n].by = caller
                        THEN Append(Pick(n - 1), requests[n].url)
                        ELSE Pick(n - 1)
  IN Pick(Len(requests))

\* C13: connectAll probes every configured repository exactly once, one at
\* a time in declaration order, whatever happens to the earlier probes: it
\* never has more than one request unanswered, its requests are the health
\* URLs of a prefix of the declared repositories, and when it returns it has
\* requested all of them, its results hold one entry per repository in
\* declaration order, total is the number of repositories and online plus
\* offline is total.
C13_ConnectAllProbesEveryRepo ==
  /\ Len(ProbesOf("connectAll")) - Len(batch.results)
       = IF batch.pc = "awaiting" THEN 1 ELSE 0
  /\ \A n \in 1..Len(ProbesOf("connectAll")) :
       /\ n <= Len(RepoOrder)
       /\ ProbesOf("connectAll")[n] = connectionsInit[RepoOrder[n]].url \o "/health"
  /\ batch.pc = "returned" =>
       /\ Len(ProbesOf("connectAll")) = Len(RepoOrder)
       /\ [n \in 1..Len(batch.summary[1].results) |-> batch.summary[1].results[n].name]
            = RepoOrder
       /\ \A n \in 1..Len(RepoOrder) :
            batch.summary[1].results[n].result.repo = RepoOrder[n]
       /\ batch.summary[1].total = Len(RepoOrder)
       /\ batch.summary[1].online + batch.summary[1].offline = batch.summary[1].total

\* C13 witness: connectAll has returned after its first fetch was rejected,
\* its second was answered with ok false and its last with ok true
C13_Witness ==
  /\ batch.pc = "returned"
  /\ "error" \in DOMAIN batch.summary[1].results[1].result
  /\ ~batch.summary[1].results[2].result.success
  /\ batch.summary[1].results[5].result.success
  /\ batch.summary[1].online = 1
  /\ batch.summary[1].offline = 4

\* C14: a rejected fetch leaves the repository 'offline', so every
\* connection's status is 'online' or 'offline' and getStats counts every
\* connection as one or the other.
C14_RejectedFetchIsOffline ==
  /\ \A name \in DOMAIN connections : connections[name].status \in {"online", "offline"}
  /\ getStats(connections).online + getStats(connections).offline
       = getStats(connections).total


\* the scores detect computes on a fresh instance
ScoresOf(data) == detect(data, lastIndexInit.theme).outcome.scores

\* the record with everything it holds repeated: every string twice, every
\* list twice over
Doubled(data) ==
  [f \in DOMAIN data |->
     IF f \in {"topics", "keywords"} THEN data[f] \o data[f]
     ELSE data[f] \o <<" ">> \o data[f]]

\* the record with `str` added to `field`: after a space at the end of a
\* string field, as one more element of a list field
Appended(data, field, str) ==
  [f \in DOMAIN data \cup {field} |->
     IF f # field THEN data[f]
     ELSE IF f \in {"topics", "keywords"}
            THEN OrEmptyArray(Prop(data, f))[1] \o <<str>>
            ELSE OrEmptyString(Prop(data, f)) \o <<" ">> \o str]

\* the record with its name moved to `field`
Relocated(data, field) ==
  Appended([f \in DOMAIN data \ {"name"} |-> data[f]], field,
           OrEmptyString(Prop(data, "name")))

\* the texts appended to a record
AppendedTexts == {Chars("game"), Chars("a Mint shop")}

\* no score of `after` is below the score of `before` for the same theme
NoneLower(after, before) ==
  /\ Len(after) = Len(before)
  /\ \A k \in 1..Len(before) : after[k] >= before[k]

\* C16: the score of a theme is the number of its patterns that occur in the
\* metadata, between 0 and the number of its patterns; repeating what the
\* record holds or moving the name to another field changes no score, and
\* appending text to a field lowers no score (the variants of a record are
\* scored once, when the first call on it has returned).
C16_ScoreCountsMatchingPatterns ==
  /\ \A n \in 1..Len(themes) :
       /\ Len(themes[n].scores) = Len(themePatterns)
       /\ \A k \in 1..Len(themePatterns) :
            /\ themes[n].scores[k] = Cardinality(OccurringOf(k, repoData))
            /\ themes[n].scores[k] \in 0..Len(themePatterns[k].patterns)
  /\ Len(themes) = 1 /\ verdicts = <<>> =>
       /\ ScoresOf(Doubled(repoData)) = themes[1].scores
       /\ \A field \in OptionalFields \cup {"name"} :
            /\ ScoresOf(Relocated(repoData, field)) = themes[1].scores
            /\ \A str \in AppendedTexts :
                 NoneLower(ScoresOf(Appended(repoData, field, str)), themes[1].scores)

\* C16 witness: detect has scored a record that holds 'mint' in its name and
\* again in its readme: the pattern counts once for 'coin-mint', and moving
\* the name to the topics and appending 'a Mint shop' give the scores the
\* claim says
C16_Witness ==
  /\ Len(themes) >= 1
  /\ {"name", "readme"} \subseteq DOMAIN repoData
  /\ repoData.name = Chars("mint")
  /\ repoData.readme = Chars("mint")
  /\ themes[1].scores[5] = 1
  /\ ScoresOf(Relocated(repoData, "topics"))[5] = 1
  /\ ScoresOf(Appended(repoData, "description", Chars("a Mint shop")))[7] = 1
  /\ themes[1].scores[7] = 0


\* the messages the five checks give on success
SuccessMessages ==
  { "No junky text detected", "All required elements present",
    "All quality thresholds met", "Content is specific and useful",
    "Page is interactive" }

\* C18: in each of the five check results of every verdict the message is
\* the success message exactly when passed is true.
C18_MessageAgreesWithPassed ==
  \A n \in 1..Len(verdicts) :
    \A key \in DOMAIN verdicts[n].results :
      verdicts[n].results[key].message \in SuccessMessages
        <=> verdicts[n].results[key].passed


\* C19: the content buildContent returns passes validateContent: each of
\* the five checks is truthy and passed is true.
C19_BuiltContentPasses ==
  contentQuality # <<>> =>
    /\ contentQuality[1].passed
    /\ \A key \in {"no_lorem", "no_placeholder", "has_real_features",
                   "has_navigation", "has_sidebar"} :
         truthy(contentQuality[1].checks[key])

\* C15: the page generateIndex returns holds no placeholder text: it passes
\* the banned-phrase check of NoJunkyPages and the no_placeholder check of
\* validateQuality.
C15_RenderedPageHasNoPlaceholder ==
  gen.pc = "returned" =>
    /\ checkJunkyText(rendered[1], lastIndexInit.junky).passed
    /\ validateQuality(rendered[1]).checks.no_placeholder

\* C20: when both configuration fetches succeed, the data a call of
\* generateIndex renders holds the fetched values, however loadConfig and
\* generateIndex interleave.
C20_GenerateIndexUsesLoadedConfig ==
  gen.pc = "returned" /\ network.config = "ok" /\ network.token = "ok" =>
    /\ member(member(indexData[1], "navigation"), "themes") = member(FetchedConfig, "themes")
    /\ member(member(indexData[1], "navigation"), "repos")
         = member(FetchedToken, "connections")
    /\ member(indexData[1], "tokenEconomy") = buildTokenEconomy(<<FetchedToken>>)
    /\ member(member(indexData[1], "wiring"), "repos") = member(FetchedToken, "connections")


\* C22: what extractTextContent returns holds no '<', neither starts nor
\* ends with white space, holds no two white-space characters in a row, and
\* is returned unchanged when extractTextContent is applied to it.
C22_ExtractionIsNormalForm ==
  extracted # <<>> =>
    /\ \A i \in 1..Len(extracted[1]) : extracted[1][i] # "<"
    /\ extracted[1] # <<>> =>
         /\ extracted[1][1] \notin WhiteSpace
         /\ extracted[1][Len(extracted[1])] \notin WhiteSpace
    /\ \A i \in 1..(Len(extracted[1]) - 1) :
         ~(extracted[1][i] \in WhiteSpace /\ extracted[1][i + 1] \in WhiteSpace)
    /\ extractTextContent(extracted[1]) = extracted[1]

\* C22 witness: the call has returned on a page with a style block, a line
\* break inside a run of white space, white space at its end and a tag
\* between two words, and on the returned text extraction changes nothing
C22_Witness ==
  /\ html = Chars("<STYLE>p{}</STYLE> a\n\n b <b>c</b> ")
  /\ extracted = <<Chars("a b c")>>
  /\ extractTextContent(extracted[1]) = Chars("a b c")


\* the URLs propagateUpdate has requested so far, in the order it did
UpdateUrls == [n \in 1..Len(requests) |-> requests[n].url]

\* C21: with dominoUpdate.enabled true, propagateUpdate sends one update
\* request to each connection in declaration order, one at a time and
\* whatever happens to the earlier ones, and returns one entry per
\* connection with successful plus failed equal to their number; with
\* dominoUpdate.enabled false it sends nothing and returns success false;
\* no step of it changes a connection.
C21_PropagateReachesEveryConnection ==
  /\ [](/\ Len(requests) <= Len(RepoOrder)
        /\ \A n \in 1..Len(requests) :
             UpdateUrls[n] = connectionsInit[RepoOrder[n]].url \o "/update"
        /\ Len(requests) - Len(propagate.results)
             = IF propagate.pc = "awaiting" THEN 1 ELSE 0
        /\ propagate.pc = "returned" /\ dominoUpdate.enabled =>
             /\ Len(requests) = Len(RepoOrder)
             /\ [n \in 1..Len(propagate.returned[1].results) |->
                   propagate.returned[1].results[n].repo] = RepoOrder
             /\ propagate.returned[1].successful + propagate.returned[1].failed
                  = Len(RepoOrder)
        /\ propagate.pc = "returned" /\ ~dominoUpdate.enabled =>
             /\ requests = <<>>
             /\ ~propagate.returned[1].success)
  /\ [][\A name \in DOMAIN connections :
          connections'[name].status = connections[name].status]_vars

\* C21 witness: propagateUpdate has returned on an instance that holds a
\* connection in status 'error', after its first request was rejected, its
\* second answered with ok false and its last with ok true
C21_Witness ==
  /\ propagate.pc = "returned"
  /\ dominoUpdate.enabled
  /\ connections["dash-hub"].status = "error"
  /\ "error" \in DOMAIN propagate.returned[1].results[1]
  /\ ~propagate.returned[1].results[2].success
  /\ propagate.returned[1].results[5].success
  /\ propagate.returned[1].successful = 1
  /\ propagate.returned[1].failed = 4

====
